---- MODULE Spec2Model ----
(***************************************************************************)
(* Bills Allocation App: the category store, the expense records, the      *)
(* split calculator, the categorizer and the bulk recategorizer of         *)
(* src/app.py and src/update_categories.py, as a state machine over the    *)
(* SQLite database data/expenses.db.                                       *)
(*                                                                         *)
(* Representation.                                                         *)
(*  - Money is in whole cents (25.90 is 2590).                             *)
(*  - The TEXT column categories.keywords is held as the sequence of its   *)
(*    comma-separated pieces, i.e. as text.split(','): the empty text is   *)
(*    <<"">>.  JoinKeywords and SplitKeywords are the two conversions.     *)
(*  - A table is a sequence of rows in rowid order, which is the order a   *)
(*    SELECT without ORDER BY returns and a Python dict then iterates.     *)
(***************************************************************************)
EXTENDS Integers, Sequences, FiniteSets, TLC

(***************************************************************************)
(* Bounds of the model.                                                    *)
(***************************************************************************)
\* entries of one edited_categories / imported JSON object
MaxBatch == 2
\* rows of the expenses table
MaxExpenses == 2
\* rows of one DataFrame handed to save_expenses
MaxRows == 2
\* largest amount of the split calculator's inputs, in cents
MaxAmount == 6

(***************************************************************************)
(* Strings.                                                                *)
(***************************************************************************)
\* category names as a caller may type them
CategoryNames == {"food", "Food", "transport"}

\* str.lower() on the category names
Lower(s) ==
  CASE s = "Food" -> "food"
    [] OTHER -> s

\* one comma-separated piece of a keyword text, as typed
RawTokens == {"grab", " Grab ", "cafe", ""}

\* k.strip().lower() on the pieces
StripLower(k) ==
  CASE k = " Grab " -> "grab"
    [] OTHER -> k

\* k.strip() is non-empty
NonBlank(k) == StripLower(k) # ""

\* keyword texts of the category editor, as keywords_str.split(',')
KeywordTexts ==
  { <<"">>, <<"grab">>, <<"cafe">>, <<" Grab ", "cafe">>,
    <<"cafe", "", "grab">>, <<"grab", " Grab ">> }

\* keyword lists handed to update_category or found in a categories JSON
KeywordLists ==
  { <<>>, <<"">>, <<"grab">>, <<"cafe">>, <<"grab", "cafe">>, <<"cafe", "", "grab">> }

\* ','.join(keywords) if keywords else ''
JoinKeywords(keywords) == IF keywords = <<>> THEN <<"">> ELSE keywords

\* keywords.split(',') if keywords else []
SplitKeywords(text) == IF text = <<"">> THEN <<>> ELSE text

(***************************************************************************)
(* Sequences.                                                              *)
(***************************************************************************)
Range(s) == { s[i] : i \in 1..Len(s) }

SelectRows(s, Test(_)) == SelectSeq(s, Test)

\* the sequences over S of length lo..hi without a repeated element
DistinctSeqs(S, lo, hi) ==
  { s \in UNION { [1..n -> S] : n \in lo..hi } :
      \A i, j \in 1..Len(s) : i # j => s[i] # s[j] }

\* the sequences over S of length lo..hi
SeqsUpTo(S, lo, hi) == UNION { [1..n -> S] : n \in lo..hi }

VARIABLES
  categories,     \* table categories: rows [name, keywords] in rowid order
  defaultsFile,   \* default_categories.json: pairs [name, keywords] in file order
  expenses,       \* table expenses: rows in rowid order
  nextId,         \* the AUTOINCREMENT sequence of expenses.id
  dbLock,         \* who holds SQLite's write lock: "none", "bulk" or "sync"
  bulk,           \* the running bulk recategorization
  pure,           \* input and result of a pure function under check
  lastOp          \* the last operation, its arguments and its result

vars == <<categories, defaultsFile, expenses, nextId, dbLock, bulk, pure, lastOp>>

(***************************************************************************)
(* The category store (table categories).                                  *)
(***************************************************************************)
\* contents of default_categories.json the model starts from: a missing file
\* (load_default_categories then gives {}) or one category
DefaultFiles == { <<>>, << [name |-> "Food", keywords |-> <<"cafe">>] >> }

HasName(cats, name) == \E i \in 1..Len(cats) : cats[i].name = name

WithoutName(cats, name) == SelectSeq(cats, LAMBDA r : r.name # name)

\* the new keywords added to the row's old ones instead of replacing them
InsertOrMerge(cats, name, text) ==
  IF HasName(cats, name)
  THEN [i \in 1..Len(cats) |->
          IF cats[i].name = name
          THEN [name |-> name, keywords |-> cats[i].keywords \o text]
          ELSE cats[i]]
  ELSE Append(cats, [name |-> name, keywords |-> text])

\* INSERT OR REPLACE INTO categories: the row of that name is deleted and the
\* new row gets the next rowid, so it moves to the end of the table
InsertOrReplace(cats, name, text) ==
  Append(WithoutName(cats, name), [name |-> name, keywords |-> text])

\* INSERT OR IGNORE INTO categories
InsertOrIgnore(cats, name, text) ==
  IF HasName(cats, name) THEN cats
  ELSE Append(cats, [name |-> name, keywords |-> text])

\* DELETE FROM categories WHERE name = ?
DeleteRow(cats, name) == WithoutName(cats, name)

RECURSIVE SeedDefaults(_, _)
\* init_db: the loop inserting the default categories
SeedDefaults(cats, defaults) ==
  IF defaults = <<>> THEN cats
  ELSE SeedDefaults(
         InsertOrIgnore(cats, Lower(Head(defaults).name),
                        JoinKeywords(Head(defaults).keywords)),
         Tail(defaults))

\* init_db needs the write lock: the table is empty and there are defaults to insert
NeedsSeed(cats, defaults) == cats = <<>> /\ defaults # <<>>

\* init_db: an empty categories table is seeded from default_categories.json
\* and committed, on every connection any operation opens
init_db(cats, defaults) ==
  IF cats = <<>> THEN SeedDefaults(<<>>, defaults) ELSE cats

\* the dict get_all_categories builds from the rows: name -> keyword list
AllCategories(cats) ==
  [i \in 1..Len(cats) |->
     [name |-> cats[i].name, keywords |-> SplitKeywords(cats[i].keywords)]]

\* [k.strip().lower() for k in keywords_str.split(',') if k.strip()]
ParseKeywords(text) ==
  LET kept == SelectSeq(text, NonBlank)
  IN  [i \in 1..Len(kept) |-> StripLower(kept[i])]

RECURSIVE ClaimEveryKeyword(_, _, _, _)
\* the inner loop without the membership test: every keyword is kept
ClaimEveryKeyword(keywords, category, keyword_map, kept) ==
  IF keywords = <<>> THEN [kept |-> kept, keyword_map |-> keyword_map]
  ELSE ClaimEveryKeyword(Tail(keywords), category,
                         [k \in DOMAIN keyword_map \cup {Head(keywords)} |-> category],
                         Append(kept, Head(keywords)))

RECURSIVE ClaimKeywords(_, _, _, _)
\* update_categories_with_unique_keywords, the inner loop over one category's
\* keywords: a keyword already in keyword_map is skipped, another is claimed
ClaimKeywords(keywords, category, keyword_map, kept) ==
  IF keywords = <<>> THEN [kept |-> kept, keyword_map |-> keyword_map]
  ELSE LET keyword == Head(keywords)
       IN  IF keyword \in DOMAIN keyword_map
           THEN ClaimKeywords(Tail(keywords), category, keyword_map, kept)
           ELSE ClaimKeywords(Tail(keywords), category,
                              keyword_map @@ (keyword :> category),
                              Append(kept, keyword))

RECURSIVE ProcessCategories(_, _, _)
\* update_categories_with_unique_keywords, the first loop: processed_categories
\* and keyword_map built over edited_categories in its iteration order
ProcessCategories(edited, keyword_map, processed) ==
  IF edited = <<>> THEN [processed |-> processed, keyword_map |-> keyword_map]
  ELSE LET e == Head(edited)
           r == ClaimKeywords(ParseKeywords(e.keywords), e.name, keyword_map, <<>>)
       IN  ProcessCategories(Tail(edited), r.keyword_map,
                             Append(processed, [name |-> e.name, keywords |-> r.kept]))

EmptyMap == [k \in {} |-> ""]

processed_categories(edited) == ProcessCategories(edited, EmptyMap, <<>>).processed

keyword_map(edited) == ProcessCategories(edited, EmptyMap, <<>>).keyword_map

RECURSIVE WriteCategories(_, _)
\* the loop of INSERT OR REPLACE statements over a name -> keyword list mapping
WriteCategories(cats, entries) ==
  IF entries = <<>> THEN cats
  ELSE WriteCategories(
         InsertOrReplace(cats, Lower(Head(entries).name),
                         JoinKeywords(Head(entries).keywords)),
         Tail(entries))

\* a write statement of a connection other than the lock holder fails with
\* "database is locked" once the busy timeout has passed
Locked == dbLock # "none"

Op(op, args, ok) == [op |-> op, args |-> args, ok |-> ok]

StoreUnchanged == UNCHANGED <<categories, defaultsFile>>

ExpensesUnchanged == UNCHANGED <<expenses, nextId>>

\* update_category(name, keywords)
update_category ==
  \E name \in CategoryNames, keywords \in KeywordLists :
    /\ IF Locked
       THEN /\ lastOp' = Op("update_category", [name |-> name, keywords |-> keywords], FALSE)
            /\ UNCHANGED categories
       ELSE /\ categories' = InsertOrReplace(init_db(categories, defaultsFile),
                                             Lower(name), JoinKeywords(keywords))
            /\ lastOp' = Op("update_category", [name |-> name, keywords |-> keywords], TRUE)
    /\ UNCHANGED <<defaultsFile, expenses, nextId, dbLock, bulk, pure>>

\* delete_category(name)
delete_category ==
  \E name \in CategoryNames :
    /\ IF Locked
       THEN /\ lastOp' = Op("delete_category", [name |-> name], FALSE)
            /\ UNCHANGED categories
       ELSE /\ categories' = DeleteRow(init_db(categories, defaultsFile), Lower(name))
            /\ lastOp' = Op("delete_category", [name |-> name], TRUE)
    /\ UNCHANGED <<defaultsFile, expenses, nextId, dbLock, bulk, pure>>

\* a dict name -> value as its items in iteration order: up to MaxBatch
\* entries with distinct keys
Batches(Names, Values) ==
  { b \in SeqsUpTo([name : Names, keywords : Values], 1, MaxBatch) :
      \A i, j \in 1..Len(b) : i # j => b[i].name # b[j].name }

\* the names the table can hold: every writer lowercases the name
StoredNames == { Lower(n) : n \in CategoryNames }

\* import_categories(file_content), file_content a JSON object
import_categories ==
  \E content \in Batches(CategoryNames, KeywordLists) :
    /\ IF Locked
       THEN /\ lastOp' = Op("import_categories", [content |-> content], FALSE)
            /\ UNCHANGED categories
       ELSE /\ categories' = WriteCategories(init_db(categories, defaultsFile), content)
            /\ lastOp' = Op("import_categories", [content |-> content], TRUE)
    /\ UNCHANGED <<defaultsFile, expenses, nextId, dbLock, bulk, pure>>

\* update_categories_with_unique_keywords(edited_categories); the Category
\* Settings page builds edited_categories from the names get_all_categories
\* returned, with the text of each edited keyword box
update_categories_with_unique_keywords ==
  \E edited \in Batches(StoredNames, KeywordTexts) :
    /\ IF Locked
       THEN /\ lastOp' = Op("update_categories_with_unique_keywords",
                            [edited |-> edited], FALSE)
            /\ UNCHANGED categories
       ELSE /\ categories' = WriteCategories(init_db(categories, defaultsFile),
                                             processed_categories(edited))
            /\ lastOp' = Op("update_categories_with_unique_keywords",
                            [edited |-> edited], TRUE)
    /\ UNCHANGED <<defaultsFile, expenses, nextId, dbLock, bulk, pure>>

(***************************************************************************)
(* Initial state: the database file does not exist yet.                    *)
(***************************************************************************)
BulkIdle == [pc |-> "idle"]

NoPure == [fn |-> "none"]

Init ==
  /\ categories = <<>>
  /\ defaultsFile \in DefaultFiles
  /\ expenses = <<>>
  /\ nextId = 1
  /\ dbLock = "none"
  /\ bulk = BulkIdle
  /\ pure = NoPure
  /\ lastOp = Op("init", <<>>, TRUE)

(***************************************************************************)
(* The category store on its own.                                          *)
(***************************************************************************)
NextStore ==
  \/ update_category
  \/ delete_category
  \/ import_categories
  \/ update_categories_with_unique_keywords

SpecStore == Init /\ [][NextStore]_vars

\* the keyword list of category `name` in the snapshot get_all_categories reads
KeywordsOf(cats, name) ==
  LET snap == AllCategories(cats)
      at == { i \in 1..Len(snap) : snap[i].name = name }
  IN  IF at = {} THEN <<>> ELSE snap[CHOOSE i \in at : TRUE].keywords

\* the places (category row, position) of the non-empty keywords of the snapshot
KeywordPlaces(cats) ==
  LET snap == AllCategories(cats)
  IN  UNION { { <<i, j>> : j \in { k \in 1..Len(snap[i].keywords) :
                                       snap[i].keywords[k] # "" } } :
              i \in 1..Len(snap) }

(* C1: keyword uniqueness is an invariant of the persisted category store: *)
(* after any sequence of store mutations no keyword stands at two places   *)
(* of the keyword lists, so no keyword belongs to two categories.          *)
C1_KeywordsUnique ==
  LET snap == AllCategories(categories)
  IN  \A p, q \in KeywordPlaces(categories) :
        snap[p[1]].keywords[p[2]] = snap[q[1]].keywords[q[2]] => p = q

\* the last operation was a bulk keyword update of the batch `edited`
BulkKeywordUpdateDone ==
  lastOp.op = "update_categories_with_unique_keywords"

\* the first entry of the batch whose keyword text proposes token t
FirstProposer(edited, t) ==
  CHOOSE i \in 1..Len(edited) :
    /\ t \in Range(ParseKeywords(edited[i].keywords))
    /\ \A j \in 1..(i - 1) : t \notin Range(ParseKeywords(edited[j].keywords))

\* the tokens the batch proposes
Proposed(edited) ==
  UNION { Range(ParseKeywords(edited[i].keywords)) : i \in 1..Len(edited) }

(* C2: after one bulk keyword update the persisted keyword lists of the    *)
(* batch's categories are pairwise disjoint, every proposed token is kept  *)
(* by the first category of the batch that proposed it and by no later     *)
(* one, and the update reports success whether or not tokens collided.     *)
C2_FirstClaimWins ==
  BulkKeywordUpdateDone =>
    LET edited == lastOp.args.edited
        kept(i) == Range(KeywordsOf(categories, Lower(edited[i].name)))
    IN  /\ lastOp.ok
        /\ \A i, j \in 1..Len(edited) : i # j => kept(i) \cap kept(j) = {}
        /\ \A t \in Proposed(edited) :
             \A i \in 1..Len(edited) :
               t \in kept(i) <=> i = FirstProposer(edited, t)
        /\ \A i \in 1..Len(edited) : kept(i) \subseteq Proposed(edited)

\* a bulk keyword update whose second category proposed a token the first
\* had claimed, and lost it
C2_Witness ==
  /\ BulkKeywordUpdateDone
  /\ lastOp.ok
  /\ Len(lastOp.args.edited) = 2
  /\ \E t \in Range(ParseKeywords(lastOp.args.edited[1].keywords))
             \cap Range(ParseKeywords(lastOp.args.edited[2].keywords)) :
       /\ t \in Range(KeywordsOf(categories, Lower(lastOp.args.edited[1].name)))
       /\ t \notin Range(KeywordsOf(categories, Lower(lastOp.args.edited[2].name)))

(***************************************************************************)
(* The split calculator.                                                   *)
(***************************************************************************)
\* the largest share the number inputs "Your Share %" accept
MaxPercent == 100

Percentages == 0..MaxPercent

\* how the float arithmetic resolves a value that lies exactly half a cent
\* between two cents: the binary double next to it is below or above the
\* half, and round() then goes down or up (0.15 * 0.5 gives 0.07,
\* 0.01 * 0.5 gives 0.01)
Ties == {"down", "up"}

\* round(x, 2) for x = q / 10000, i.e. q hundredths of a cent, as cents
RoundCents(q, tie) ==
  LET lo == q \div 100
      r  == q % 100
  IN  IF r < 50 THEN lo
      ELSE IF r > 50 THEN lo + 1
      ELSE IF tie = "up" THEN lo + 1 ELSE lo

\* calculate_split_amounts with the partner share rounded on its own from
\* the complementary percentage
SplitIndependently(amount, self_percentage, tie) ==
  [self_amount |-> RoundCents(amount * self_percentage, tie),
   wife_amount |-> RoundCents(amount * (100 - self_percentage), tie)]

\* calculate_split_amounts(amount, self_percentage), amounts in cents
calculate_split_amounts(amount, self_percentage, tie) ==
  LET self_amount == RoundCents(amount * self_percentage, tie)
      wife_amount == RoundCents((amount - self_amount) * 100, tie)
  IN  [self_amount |-> self_amount, wife_amount |-> wife_amount]

SplitInputs ==
  [fn : {"input"}, amount : (0 - MaxAmount)..MaxAmount,
   self_percentage : Percentages, tie : Ties]

InitSplit ==
  /\ categories = <<>>
  /\ defaultsFile = <<>>
  /\ expenses = <<>>
  /\ nextId = 1
  /\ dbLock = "none"
  /\ bulk = BulkIdle
  /\ pure \in SplitInputs
  /\ lastOp = Op("init", <<>>, TRUE)

ApplySplit ==
  /\ pure.fn = "input"
  /\ pure' = [fn |-> "calculate_split_amounts",
              amount |-> pure.amount,
              self_percentage |-> pure.self_percentage,
              result |-> calculate_split_amounts(pure.amount, pure.self_percentage,
                                                 pure.tie)]
  /\ UNCHANGED <<categories, defaultsFile, expenses, nextId, dbLock, bulk, lastOp>>

SpecSplit == InitSplit /\ [][ApplySplit]_vars

(* C3: for every amount >= 0 in whole cents and every percentage 0..100,   *)
(* calculate_split_amounts returns a self share that is amount *           *)
(* percentage / 100 rounded to the nearest cent (at most half a cent       *)
(* away), and the two shares add up to the amount exactly.                 *)
C3_SplitSumsToAmount ==
  (pure.fn = "calculate_split_amounts" /\ pure.amount >= 0) =>
    LET exact == pure.amount * pure.self_percentage
        self  == pure.result.self_amount
    IN  /\ 100 * self - exact <= 50
        /\ exact - 100 * self <= 50
        /\ self + pure.result.wife_amount = pure.amount

\* a split of an odd number of cents in two halves: the self share was
\* rounded up and the partner share is the cent below
C3_Witness ==
  /\ pure.fn = "calculate_split_amounts"
  /\ pure.amount = 3
  /\ pure.self_percentage = 50
  /\ pure.result.self_amount = 2
  /\ pure.result.wife_amount = 1

(***************************************************************************)
(* Characters.  A text is the sequence of its characters where the code    *)
(* looks inside it.                                                        *)
(***************************************************************************)
Uppercase == <<"A", "B", "C", "D", "E", "F", "G", "H", "I", "J", "K", "L", "M", "N", "O", "P", "Q", "R", "S", "T", "U", "V", "W", "X", "Y", "Z">>

Lowercase == <<"a", "b", "c", "d", "e", "f", "g", "h", "i", "j", "k", "l", "m", "n", "o", "p", "q", "r", "s", "t", "u", "v", "w", "x", "y", "z">>

Digits == <<"0", "1", "2", "3", "4", "5", "6", "7", "8", "9">>

\* c.lower()
LowerChar(c) ==
  IF \E i \in 1..Len(Uppercase) : Uppercase[i] = c
  THEN Lowercase[CHOOSE i \in 1..Len(Uppercase) : Uppercase[i] = c]
  ELSE c

\* text.lower()
LowerText(text) == [i \in 1..Len(text) |-> LowerChar(text[i])]

\* text.strip()
StripText(text) ==
  LET inked == { i \in 1..Len(text) : text[i] # " " }
  IN  IF inked = {} THEN <<>>
      ELSE SubSeq(text, CHOOSE i \in inked : \A j \in inked : i <= j,
                        CHOOSE i \in inked : \A j \in inked : j <= i)

\* sub in text
Contains(text, sub) ==
  \E i \in 1..(Len(text) - Len(sub) + 1) : SubSeq(text, i, i + Len(sub) - 1) = sub

\* \d
IsDigit(c) == \E d \in 1..Len(Digits) : Digits[d] = c

DigitValue(c) == (CHOOSE d \in 1..Len(Digits) : Digits[d] = c) - 1

RECURSIVE WholeValue(_)
\* the number a string of digits denotes
WholeValue(digits) ==
  IF digits = <<>> THEN 0
  ELSE 10 * WholeValue(SubSeq(digits, 1, Len(digits) - 1))
       + DigitValue(digits[Len(digits)])

(***************************************************************************)
(* Dates.                                                                  *)
(***************************************************************************)
\* date texts of the rows of a pasted table
DateStrings ==
  {"01 Jan 2024", "01Jan2024", "2024-01-01", "1/2/2024", "not-a-date"}

\* a date text as the sequence of its characters
Chars(date_str) ==
  CASE date_str = "01 Jan 2024" -> <<"0", "1", " ", "J", "a", "n", " ", "2", "0", "2", "4">>
    [] date_str = "01Jan2024" -> <<"0", "1", "J", "a", "n", "2", "0", "2", "4">>
    [] date_str = "2024-01-01" -> <<"2", "0", "2", "4", "-", "0", "1", "-", "0", "1">>
    [] date_str = "1/2/2024" -> <<"1", "/", "2", "/", "2", "0", "2", "4">>
    [] date_str = "not-a-date" -> <<"n", "o", "t", "-", "a", "-", "d", "a", "t", "e">>

\* parse_date's result for a text no parser accepts
NoDate == "None"

\* the explicit formats, in the order parse_date tries them
DateFormats == <<"%d %b %Y", "%d%b%Y", "%Y-%m-%d">>

\* the C libraries under strftime: glibc writes %Y without padding, others
\* pad the year to four digits
Libcs == {"glibc", "padding"}

\* the abbreviated month names %b accepts, in any letter case
MonthAbbr ==
  << <<"j", "a", "n">>,
     <<"f", "e", "b">>,
     <<"m", "a", "r">>,
     <<"a", "p", "r">>,
     <<"m", "a", "y">>,
     <<"j", "u", "n">>,
     <<"j", "u", "l">>,
     <<"a", "u", "g">>,
     <<"s", "e", "p">>,
     <<"o", "c", "t">>,
     <<"n", "o", "v">>,
     <<"d", "e", "c">> >>

\* the number of the month `letters` abbreviates, 0 for none
MonthOf(letters) ==
  IF \E m \in 1..Len(MonthAbbr) : MonthAbbr[m] = LowerText(letters)
  THEN CHOOSE m \in 1..Len(MonthAbbr) : MonthAbbr[m] = LowerText(letters)
  ELSE 0

IsLeap(year) == (year % 4 = 0 /\ year % 100 # 0) \/ year % 400 = 0

DaysIn(year, month) ==
  CASE month \in {4, 6, 9, 11} -> 30
    [] month = 2 -> IF IsLeap(year) THEN 29 ELSE 28
    [] OTHER -> 31

\* the length of the run of digits that starts at position i
DigitRun(text, i) ==
  CHOOSE n \in 0..Len(text) :
    /\ i + n - 1 <= Len(text)
    /\ \A k \in i..(i + n - 1) : IsDigit(text[k])
    /\ i + n > Len(text) \/ ~IsDigit(text[i + n])

\* the length of the run of blanks that starts at position i
SpaceRun(text, i) ==
  CHOOSE n \in 0..Len(text) :
    /\ i + n - 1 <= Len(text)
    /\ \A k \in i..(i + n - 1) : text[k] = " "
    /\ i + n > Len(text) \/ text[i + n] # " "

\* no date: what a ValueError of strptime stands for
NoFields == [year |-> 0, month |-> 0, day |-> 0]

\* the date of year, month, day if there is such a day
DateOf(year, month, day) ==
  IF year >= 1 /\ month \in 1..12 /\ day \in 1..DaysIn(year, month)
  THEN [year |-> year, month |-> month, day |-> day]
  ELSE NoFields

\* strptime with '%d %b %Y' (spaced) or '%d%b%Y': one or two digits, the
\* month name, four digits; blanks between them in the first, none in the
\* second
DayMonthYear(text, spaced) ==
  LET d == DigitRun(text, 1)
      s1 == SpaceRun(text, d + 1)
      b == d + s1 + 1
      s2 == SpaceRun(text, b + 3)
      y == b + 3 + s2
  IN  IF /\ d \in {1, 2}
         /\ IF spaced THEN s1 >= 1 ELSE s1 = 0
         /\ b + 2 <= Len(text)
         /\ MonthOf(SubSeq(text, b, b + 2)) # 0
         /\ IF spaced THEN s2 >= 1 ELSE s2 = 0
         /\ y + 3 = Len(text)
         /\ DigitRun(text, y) = 4
      THEN DateOf(WholeValue(SubSeq(text, y, y + 3)),
                  MonthOf(SubSeq(text, b, b + 2)),
                  WholeValue(SubSeq(text, 1, d)))
      ELSE NoFields

\* strptime with '%Y-%m-%d': four digits, one or two, one or two
YearMonthDay(text) ==
  LET m == DigitRun(text, 6)
      d == DigitRun(text, 7 + m)
  IN  IF /\ DigitRun(text, 1) = 4
         /\ Len(text) >= 5
         /\ text[5] = "-"
         /\ m \in {1, 2}
         /\ Len(text) >= 6 + m
         /\ text[6 + m] = "-"
         /\ d \in {1, 2}
         /\ 6 + m + d = Len(text)
      THEN DateOf(WholeValue(SubSeq(text, 1, 4)),
                  WholeValue(SubSeq(text, 6, 5 + m)),
                  WholeValue(SubSeq(text, 7 + m, 6 + m + d)))
      ELSE NoFields

\* %m and %d of strftime: two digits
Pad2(n) == IF n < 10 THEN "0" \o ToString(n) ELSE ToString(n)

\* four digits
Pad4(n) ==
  CASE n < 10 -> "000" \o ToString(n)
    [] n >= 10 /\ n < 100 -> "00" \o ToString(n)
    [] n >= 100 /\ n < 1000 -> "0" \o ToString(n)
    [] OTHER -> ToString(n)

\* the date as year-month-day of four, two and two digits
Isoformat(date) ==
  Pad4(date.year) \o "-" \o Pad2(date.month) \o "-" \o Pad2(date.day)

\* .strftime('%Y-%m-%d')
Strftime(date, libc) ==
  IF libc = "glibc"
  THEN ToString(date.year) \o "-" \o Pad2(date.month) \o "-" \o Pad2(date.day)
  ELSE Isoformat(date)

\* datetime.strptime(date_str.strip(), fmt), NoFields for a ValueError
ParsedFields(text, fmt) ==
  CASE fmt = "%d %b %Y" -> DayMonthYear(StripText(text), TRUE)
    [] fmt = "%d%b%Y"   -> DayMonthYear(StripText(text), FALSE)
    [] fmt = "%Y-%m-%d" -> YearMonthDay(StripText(text))

\* datetime.strptime(date_str.strip(), fmt).strftime('%Y-%m-%d'), NoDate for
\* a ValueError
Strptime(text, fmt, libc) ==
  IF ParsedFields(text, fmt) = NoFields THEN NoDate
  ELSE Strftime(ParsedFields(text, fmt), libc)

\* pd.to_datetime(date_str).strftime('%Y-%m-%d'), NoDate when it raises;
\* only texts the explicit formats reject get here
PandasToDatetime(text) ==
  CASE text = Chars("1/2/2024") -> "2024-01-02"
    [] OTHER -> NoDate

RECURSIVE TryFormats(_, _, _)
\* the loop over the explicit formats: the first that parses returns
TryFormats(text, formats, libc) ==
  IF formats = <<>> THEN NoDate
  ELSE IF Strptime(text, Head(formats), libc) # NoDate
       THEN Strptime(text, Head(formats), libc)
       ELSE TryFormats(text, Tail(formats), libc)

\* parse_date on the characters of the text
ParseDateText(text, libc) ==
  IF TryFormats(text, DateFormats, libc) # NoDate
  THEN TryFormats(text, DateFormats, libc)
  ELSE PandasToDatetime(text)

\* parse_date(date_str); the years of DateStrings have four digits, which
\* every C library writes alike
parse_date(date_str) == ParseDateText(Chars(date_str), "glibc")

(***************************************************************************)
(* The expense records (table expenses).                                   *)
(***************************************************************************)
\* update_expense's default for an argument that is not given
NoCategory == "None"

NoPercentage == 0 - 1

\* the largest id the AUTOINCREMENT sequence hands out in the model
MaxId == 2

\* raw statement texts of the rows with the amount extract_amount finds in them
StatementTexts == {"S$0.03", "S$0.03 cr"}

AmountOfText(text) ==
  CASE text = "S$0.03"    -> 3
    [] text = "S$0.03 cr" -> 0 - 3

\* expense names of the rows
RowDescriptions == {"Grab Ride"}

\* date texts of the rows
RowDates == {"01 Jan 2024", "not-a-date"}

\* category chosen in the review editor for a row
RowCategories == {"food"}

\* share entered for a row: the editor's default
RowPercentages == {50}

\* the bill month chosen on the page, one for all rows of a DataFrame
BillMonths == {"2024-01-01"}

\* one row of the DataFrame handed to save_expenses: the page takes Amount
\* from the text and both shares from calculate_split_amounts on the row's
\* amount and percentage
DataFrameRows ==
  { [Date |-> d, Bills |-> b, Text |-> t, Amount |-> AmountOfText(t),
     Category |-> c, SelfPercentage |-> p,
     SelfAmount |-> calculate_split_amounts(AmountOfText(t), p, tie).self_amount,
     WifeAmount |-> calculate_split_amounts(AmountOfText(t), p, tie).wife_amount] :
      d \in RowDates, b \in RowDescriptions, t \in StatementTexts,
      c \in RowCategories, p \in RowPercentages, tie \in Ties }

DataFrames == SeqsUpTo(DataFrameRows, 1, MaxRows)

\* the row INSERT INTO expenses stores for DataFrame row `row`
ExpenseRow(id, row, bill_month) ==
  [id |-> id, date |-> parse_date(row.Date), description |-> row.Bills,
   amount |-> row.Amount, category |-> row.Category,
   self_percentage |-> row.SelfPercentage, self_amount |-> row.SelfAmount,
   wife_amount |-> row.WifeAmount, original_text |-> row.Text,
   credit_card_bill_month |-> bill_month]

\* the loop of INSERT statements over the DataFrame
InsertRows(table, first_id, df, bill_month) ==
  table \o [i \in 1..Len(df) |-> ExpenseRow(first_id + i - 1, df[i], bill_month)]

\* the dates loop looking at the first row only
FirstDateFails(df) == parse_date(df[1].Date) = NoDate

\* the dates loop of save_expenses: some row's date does not parse
SomeDateFails(df) == \E i \in 1..Len(df) : parse_date(df[i].Date) = NoDate

HasId(table, id) == \E i \in 1..Len(table) : table[i].id = id

RowOfId(table, id) == table[CHOOSE i \in 1..Len(table) : table[i].id = id]

Dates(df) == [i \in 1..Len(df) |-> df[i].Date]

\* save_expenses(df): init_db commits its seeding before the dates are looked at
save_expenses ==
  \E df \in DataFrames, bill_month \in BillMonths :
    /\ Len(expenses) + Len(df) <= MaxExpenses
    /\ nextId + Len(df) - 1 <= MaxId
    /\ IF Locked /\ NeedsSeed(categories, defaultsFile)
       THEN /\ lastOp' = Op("save_expenses", [dates |-> Dates(df)], FALSE)
            /\ UNCHANGED <<categories, expenses, nextId>>
       ELSE /\ categories' = init_db(categories, defaultsFile)
            /\ IF SomeDateFails(df) \/ Locked
               THEN /\ lastOp' = Op("save_expenses", [dates |-> Dates(df)], FALSE)
                    /\ UNCHANGED <<expenses, nextId>>
               ELSE /\ expenses' = InsertRows(expenses, nextId, df, bill_month)
                    /\ nextId' = nextId + Len(df)
                    /\ lastOp' = Op("save_expenses", [dates |-> Dates(df)], TRUE)
    /\ UNCHANGED <<defaultsFile, dbLock, bulk, pure>>

\* DELETE FROM expenses WHERE id = ?
DeleteExpenseRow(table, id) == SelectSeq(table, LAMBDA r : r.id # id)

\* delete_expense(expense_id)
delete_expense ==
  \E expense_id \in 1..MaxId :
    /\ IF Locked
       THEN /\ lastOp' = Op("delete_expense", [expense_id |-> expense_id], FALSE)
            /\ UNCHANGED <<categories, expenses>>
       ELSE /\ categories' = init_db(categories, defaultsFile)
            /\ expenses' = DeleteExpenseRow(expenses, expense_id)
            /\ lastOp' = Op("delete_expense", [expense_id |-> expense_id], TRUE)
    /\ UNCHANGED <<defaultsFile, nextId, dbLock, bulk, pure>>

\* update_expense with the split amounts computed from the percentage alone
\* for one and from the stored self amount for the other
UpdateOnlySelfAmount(row, category, self_percentage, tie) ==
  [row EXCEPT
     !.category = IF category # NoCategory THEN category ELSE @,
     !.self_percentage = IF self_percentage # NoPercentage THEN self_percentage ELSE @,
     !.self_amount = IF self_percentage # NoPercentage
                     THEN RoundCents(row.amount * self_percentage, tie) ELSE @]

\* the UPDATE with every column in `updates`, given or not
UpdateEveryColumn(row, category, self_percentage, tie) ==
  LET self_amount == RoundCents(row.amount * self_percentage, tie)
      wife_amount == RoundCents((row.amount - self_amount) * 100, tie)
  IN  [row EXCEPT
         !.category = category,
         !.self_percentage = self_percentage,
         !.self_amount = self_amount,
         !.wife_amount = wife_amount]

\* the UPDATE of update_expense on the row it addresses: the columns named in
\* `updates` get their values, the shares recomputed from the stored amount
UpdatedExpense(row, category, self_percentage, tie) ==
  LET self_amount == RoundCents(row.amount * self_percentage, tie)
      wife_amount == RoundCents((row.amount - self_amount) * 100, tie)
  IN  [row EXCEPT
         !.category = IF category # NoCategory THEN category ELSE @,
         !.self_percentage = IF self_percentage # NoPercentage THEN self_percentage ELSE @,
         !.self_amount = IF self_percentage # NoPercentage THEN self_amount ELSE @,
         !.wife_amount = IF self_percentage # NoPercentage THEN wife_amount ELSE @]

\* categories and shares the history editor hands to update_expense
EditCategories == {"transport", NoCategory}

EditPercentages == {50, 100, NoPercentage}

\* update_expense(expense_id, category, self_percentage); it has no except
\* clause: a missing row with a percentage given raises on fetchone()[0], a
\* locked database raises on the UPDATE, and nothing is written then
update_expense ==
  \E expense_id \in 1..MaxId, category \in EditCategories,
     self_percentage \in EditPercentages, tie \in Ties :
    LET args == [expense_id |-> expense_id, category |-> category,
                 self_percentage |-> self_percentage]
        raises == \/ self_percentage # NoPercentage /\ ~HasId(expenses, expense_id)
                  \/ Locked /\ (category # NoCategory \/ self_percentage # NoPercentage)
    IN  /\ IF Locked /\ NeedsSeed(categories, defaultsFile)
           THEN /\ lastOp' = Op("update_expense", args, FALSE)
                /\ UNCHANGED <<categories, expenses>>
           ELSE /\ categories' = init_db(categories, defaultsFile)
                /\ IF raises
                   THEN /\ lastOp' = Op("update_expense", args, FALSE)
                        /\ UNCHANGED expenses
                   ELSE /\ expenses' =
                             [i \in 1..Len(expenses) |->
                                IF expenses[i].id = expense_id
                                THEN UpdatedExpense(expenses[i], category,
                                                    self_percentage, tie)
                                ELSE expenses[i]]
                        /\ lastOp' = Op("update_expense", args, TRUE)
        /\ UNCHANGED <<defaultsFile, nextId, dbLock, bulk, pure>>

NextExpenses ==
  \/ save_expenses
  \/ update_expense
  \/ delete_expense

SpecExpenses == Init /\ [][NextExpenses]_vars

\* the shares of every stored record add up to its amount
SharesAddUp ==
  \A i \in 1..Len(expenses) :
    expenses[i].self_amount + expenses[i].wife_amount = expenses[i].amount

\* what a successful update_expense step does to the amounts of each record
UpdateKeepsShares ==
  (lastOp'.op = "update_expense" /\ lastOp'.ok) =>
    /\ Len(expenses') = Len(expenses)
    /\ \A i \in 1..Len(expenses) :
         LET old == expenses[i]
             new == expenses'[i]
             pct == lastOp'.args.self_percentage
         IN  /\ new.amount = old.amount
             /\ IF old.id = lastOp'.args.expense_id /\ pct # NoPercentage
                THEN /\ new.self_percentage = pct
                     /\ 100 * new.self_amount - old.amount * pct <= 50
                     /\ old.amount * pct - 100 * new.self_amount <= 50
                     /\ new.wife_amount = old.amount - new.self_amount
                ELSE /\ new.self_amount = old.self_amount
                     /\ new.wife_amount = old.wife_amount

(* C4: every persisted expense record satisfies self_amount + wife_amount  *)
(* = amount after any sequence of save_expenses and update_expense calls;  *)
(* an update that gives a percentage recomputes both shares together from  *)
(* the stored amount, and an update that gives only a category leaves both *)
(* shares of every record as they were.                                    *)
C4_SharesRecomputedTogether == []SharesAddUp /\ [][UpdateKeepsShares]_vars

\* a record whose share was changed from the default 50 to 100 by
\* update_expense: the self share is the whole amount
C4_Witness ==
  /\ lastOp.op = "update_expense"
  /\ lastOp.ok
  /\ lastOp.args.self_percentage = 100
  /\ \E i \in 1..Len(expenses) :
       /\ expenses[i].id = lastOp.args.expense_id
       /\ expenses[i].self_percentage = 100
       /\ expenses[i].self_amount = expenses[i].amount
       /\ expenses[i].wife_amount = 0
       /\ expenses[i].amount # 0

(* C9: bulk import is all-or-nothing on date validity: when parse_date     *)
(* fails for the date of any row of the DataFrame, save_expenses reports   *)
(* failure and the expenses table is what it was, rows before the bad one  *)
(* included.                                                               *)
C9_BadDateRejectsBatch ==
  [][ (/\ lastOp'.op = "save_expenses"
       /\ \E i \in 1..Len(lastOp'.args.dates) :
            parse_date(lastOp'.args.dates[i]) = NoDate)
      => (~lastOp'.ok /\ expenses' = expenses /\ nextId' = nextId) ]_vars

\* a DataFrame whose first date parses and whose second does not was
\* rejected, with nothing stored
C9_Witness ==
  /\ lastOp.op = "save_expenses"
  /\ ~lastOp.ok
  /\ lastOp.args.dates = <<"01 Jan 2024", "not-a-date">>
  /\ expenses = <<>>

(***************************************************************************)
(* The categorizer.                                                        *)
(***************************************************************************)
\* a description that is NULL / None / NaN
NoDescription == "<null>"

\* expense descriptions
Descriptions ==
  {"Grab Ride", "xyz123", "Cake - Grabs", "Grab-Cafe", "!!!", "", "   ",
   " - ", "-", NoDescription}

\* the descriptions, their normalized forms, their words and the keywords
Texts ==
  { "Grab Ride",
    "xyz123",
    "Cake - Grabs",
    "Grab-Cafe",
    "!!!",
    "",
    "   ",
    " - ",
    "-",
    "grab ride",
    "cake grabs",
    "grab-cafe",
    "grab",
    "ride",
    "cake",
    "grabs",
    "cafe",
    " Grab " }

\* a description, a word or a keyword as the sequence of its characters
Letters(s) ==
  CASE s = "Grab Ride" -> <<"G", "r", "a", "b", " ", "R", "i", "d", "e">>
    [] s = "xyz123" -> <<"x", "y", "z", "1", "2", "3">>
    [] s = "Cake - Grabs" -> <<"C", "a", "k", "e", " ", "-", " ", "G", "r", "a", "b", "s">>
    [] s = "Grab-Cafe" -> <<"G", "r", "a", "b", "-", "C", "a", "f", "e">>
    [] s = "!!!" -> <<"!", "!", "!">>
    [] s = "" -> <<>>
    [] s = "   " -> <<" ", " ", " ">>
    [] s = " - " -> <<" ", "-", " ">>
    [] s = "-" -> <<"-">>
    [] s = "grab ride" -> <<"g", "r", "a", "b", " ", "r", "i", "d", "e">>
    [] s = "cake grabs" -> <<"c", "a", "k", "e", " ", "g", "r", "a", "b", "s">>
    [] s = "grab-cafe" -> <<"g", "r", "a", "b", "-", "c", "a", "f", "e">>
    [] s = "grab" -> <<"g", "r", "a", "b">>
    [] s = "ride" -> <<"r", "i", "d", "e">>
    [] s = "cake" -> <<"c", "a", "k", "e">>
    [] s = "grabs" -> <<"g", "r", "a", "b", "s">>
    [] s = "cafe" -> <<"c", "a", "f", "e">>
    [] s = " Grab " -> <<" ", "G", "r", "a", "b", " ">>

\* the string of the characters
TextOf(chars) == CHOOSE s \in Texts : Letters(s) = chars

RECURSIVE ReplaceSpacedHyphens(_)
\* re.sub(r'\s+-\s+', ' ', expense_name)
ReplaceSpacedHyphens(text) ==
  IF text = <<>> THEN <<>>
  ELSE LET s == SpaceRun(text, 1)
           t == SpaceRun(text, s + 2)
       IN  IF s >= 1 /\ s + 1 <= Len(text) /\ text[s + 1] = "-" /\ t >= 1
           THEN <<" ">> \o ReplaceSpacedHyphens(SubSeq(text, s + 2 + t, Len(text)))
           ELSE <<Head(text)>> \o ReplaceSpacedHyphens(Tail(text))

\* [a-z0-9\s\-]
IsKept(c) ==
  \/ \E i \in 1..Len(Lowercase) : Lowercase[i] = c
  \/ IsDigit(c)
  \/ c \in {" ", "-"}

\* re.sub(r'[^a-z0-9\s\-]', ' ', expense_name)
ReplaceSpecials(text) ==
  [i \in 1..Len(text) |-> IF IsKept(text[i]) THEN text[i] ELSE " "]

RECURSIVE SplitText(_, _, _, _)
\* the non-empty pieces of the text between the separators
SplitText(text, seps, word, words) ==
  IF text = <<>>
  THEN IF word = <<>> THEN words ELSE Append(words, word)
  ELSE IF Head(text) \in seps
       THEN SplitText(Tail(text), seps, <<>>,
                      IF word = <<>> THEN words ELSE Append(words, word))
       ELSE SplitText(Tail(text), seps, Append(word, Head(text)), words)

RECURSIVE JoinWords(_)
\* ' '.join(words)
JoinWords(words) ==
  IF words = <<>> THEN <<>>
  ELSE IF Len(words) = 1 THEN Head(words)
       ELSE Head(words) \o <<" ">> \o JoinWords(Tail(words))

\* the normalization of categorize_expense on the characters
NormalizeText(text) ==
  JoinWords(SplitText(ReplaceSpecials(ReplaceSpacedHyphens(LowerText(text))),
                      {" "}, <<>>, <<>>))

\* app.py categorize_expense: the description lowercased, " - " turned into
\* a space, every character but a-z, 0-9, whitespace and hyphen turned into
\* a space, whitespace collapsed
Normalize(expense_name) == TextOf(NormalizeText(Letters(expense_name)))

\* the strings of the pieces
WordTexts(pieces) == [i \in 1..Len(pieces) |-> TextOf(pieces[i])]

\* app.py: [w for w in re.split(r'[\s-]+', expense_name) if w]
SplitWords(normalized) ==
  WordTexts(SplitText(Letters(normalized), {" ", "-"}, <<>>, <<>>))

\* update_categories.py: str(expense_name).lower().split()
LowerSplit(expense_name) ==
  WordTexts(SplitText(LowerText(Letters(expense_name)), {" "}, <<>>, <<>>))

\* the acceptance threshold of the fuzzy match
Threshold == 75

\* an engine for which every word matches every keyword
ScoreBlind(word, keyword) == IF StripLower(keyword) = "" THEN 0 ELSE 100

\* the similarity engine: fuzzywuzzy's default scorer (WRatio after
\* full_process) on a word of a description and a keyword
Score(word, keyword) ==
  LET k == StripLower(keyword)
  IN  CASE k = "" -> 0
        [] k # "" /\ word \in {"xyz123", "!!!", "-"} -> 0
        [] k # "" /\ word = k -> 100
        [] k # "" /\ word = "grab-cafe" -> 90
        [] k = "grab" /\ word = "grabs" -> 89
        [] k = "cafe" /\ word = "grabs" -> 22
        [] k = "cafe" /\ word = "cake" -> 75
        [] OTHER -> 25

RECURSIVE BestOf(_, _, _)
\* max(best_list, key=score): the first choice with the highest score
BestOf(word, choices, best) ==
  IF choices = <<>> THEN best
  ELSE BestOf(word, Tail(choices),
              IF Score(word, Head(choices)) > best.score
              THEN [match |-> Head(choices), score |-> Score(word, Head(choices))]
              ELSE best)

\* process.extractOne(word, keywords) for a non-empty list of keywords
extractOne(word, keywords) ==
  BestOf(word, Tail(keywords),
         [match |-> Head(keywords), score |-> Score(word, Head(keywords))])

Fallback == [category |-> "others", score |-> 0]

\* the test with the threshold itself accepted
BetterFromThreshold(best, category, score) ==
  IF score > best.score /\ score >= Threshold
  THEN [category |-> category, score |-> score]
  ELSE best

\* the test with an equal score accepted: the later pair wins a tie
BetterOrEqual(best, category, score) ==
  IF score >= best.score /\ score > Threshold
  THEN [category |-> category, score |-> score]
  ELSE best

\* if score > highest_score and score > 75: the pair replaces the best so far
Better(best, category, score) ==
  IF score > best.score /\ score > Threshold
  THEN [category |-> category, score |-> score]
  ELSE best

RECURSIVE ScanCategories(_, _, _)
\* for category, keywords in categories.items(): an empty keyword list is skipped
ScanCategories(word, snapshot, best) ==
  IF snapshot = <<>> THEN best
  ELSE IF Head(snapshot).keywords = <<>>
       THEN ScanCategories(word, Tail(snapshot), best)
       ELSE ScanCategories(word, Tail(snapshot),
                           Better(best, Head(snapshot).name,
                                  extractOne(word, Head(snapshot).keywords).score))

RECURSIVE ScanWords(_, _, _)
\* for word in words
ScanWords(words, snapshot, best) ==
  IF words = <<>> THEN best
  ELSE ScanWords(Tail(words), snapshot, ScanCategories(Head(words), snapshot, best))

\* the fuzzy branch of categorize_expense
FuzzyMatch(words, snapshot) == ScanWords(words, snapshot, Fallback)

\* the two implementations of categorize_expense
Variants == {"app.py", "update_categories.py"}

\* what get_all_categories does to the table and what it returns.  app.py
\* goes through init_db, which seeds an empty table; if that write meets the
\* lock, init_db returns None and the result is {}.  update_categories.py
\* only reads.
ReadCategories(variant, cats, defaults, locked) ==
  IF variant = "update_categories.py"
  THEN [store |-> cats, snapshot |-> AllCategories(cats)]
  ELSE IF locked /\ NeedsSeed(cats, defaults)
       THEN [store |-> cats, snapshot |-> <<>>]
       ELSE [store |-> init_db(cats, defaults),
             snapshot |-> AllCategories(init_db(cats, defaults))]

\* categorize_expense(expense_name): the result and the table it leaves
Categorize(variant, expense_name, cats, defaults, locked) ==
  IF variant = "app.py"
  THEN IF expense_name = NoDescription \/ Normalize(expense_name) = ""
       THEN [result |-> Fallback, store |-> cats]
       ELSE LET read == ReadCategories(variant, cats, defaults, locked)
            IN  [result |-> FuzzyMatch(SplitWords(Normalize(expense_name)),
                                       read.snapshot),
                 store |-> read.store]
  ELSE IF expense_name = NoDescription \/ expense_name = ""
       THEN [result |-> Fallback, store |-> cats]
       ELSE [result |-> FuzzyMatch(LowerSplit(expense_name), AllCategories(cats)),
             store |-> cats]

\* the words categorize_expense matches
WordsOf(variant, expense_name) ==
  IF expense_name = NoDescription THEN <<>>
  ELSE IF variant = "app.py" THEN SplitWords(Normalize(expense_name))
       ELSE LowerSplit(expense_name)

\* keyword texts the table can hold
StoredTexts == { JoinKeywords(k) : k \in KeywordLists }

\* contents of the categories table: rows with distinct lowercase names
Stores ==
  { t \in SeqsUpTo([name : StoredNames, keywords : StoredTexts], 0,
                   Cardinality(StoredNames)) :
      \A i, j \in 1..Len(t) : i # j => t[i].name # t[j].name }

InitCategorize ==
  /\ categories \in Stores
  /\ defaultsFile \in DefaultFiles
  /\ expenses = <<>>
  /\ nextId = 1
  /\ dbLock = "none"
  /\ bulk = BulkIdle
  /\ pure \in [fn : {"input"}, variant : Variants, expense_name : Descriptions]
  /\ lastOp = Op("init", <<>>, TRUE)

categorize_expense ==
  /\ pure.fn = "input"
  /\ LET c == Categorize(pure.variant, pure.expense_name, categories,
                         defaultsFile, Locked)
     IN  /\ categories' = c.store
         /\ pure' = [fn |-> "categorize_expense", variant |-> pure.variant,
                     expense_name |-> pure.expense_name, result |-> c.result]
  /\ UNCHANGED <<defaultsFile, expenses, nextId, dbLock, bulk, lastOp>>

SpecCategorize == InitCategorize /\ [][categorize_expense]_vars

\* the score of a (token, category) pair: the best similarity between the
\* token and a keyword of the category
PairScore(word, keywords) ==
  LET scores == { Score(word, keywords[k]) : k \in 1..Len(keywords) }
  IN  CHOOSE m \in scores : \A x \in scores : x <= m

\* the (token, category) pairs of a categorization: the words of the
\* description with the categories of the table that have keywords
Pairs(words, snapshot) ==
  { <<w, i>> \in (1..Len(words)) \X (1..Len(snapshot)) : snapshot[i].keywords # <<>> }

(* C10: in fuzzy mode categorize_expense returns ('others', 0) when no     *)
(* (token, category) pair scores above 75; otherwise its score is the      *)
(* highest score over all pairs, lies in 76..100, and its category is one  *)
(* of the snapshot with a keyword that reaches that score for some token.  *)
C10_BestPairWins ==
  pure.fn = "categorize_expense" =>
    LET words == WordsOf(pure.variant, pure.expense_name)
        snapshot == AllCategories(categories)
        pairs == Pairs(words, snapshot)
        score(p) == PairScore(words[p[1]], snapshot[p[2]].keywords)
    IN  IF \A p \in pairs : score(p) <= Threshold
        THEN pure.result = Fallback
        ELSE /\ \A p \in pairs : score(p) <= pure.result.score
             /\ pure.result.score \in (Threshold + 1)..100
             /\ \E p \in pairs :
                  /\ snapshot[p[2]].name = pure.result.category
                  /\ score(p) = pure.result.score

\* 'Grab Ride' against food: cafe and transport: grab gives transport, 100
C10_Witness ==
  /\ pure.fn = "categorize_expense"
  /\ pure.expense_name = "Grab Ride"
  /\ AllCategories(categories) =
       << [name |-> "food", keywords |-> <<"cafe">>],
          [name |-> "transport", keywords |-> <<"grab">>] >>
  /\ pure.result = [category |-> "transport", score |-> 100]

(***************************************************************************)
(* The bulk recategorizer: update_existing_expenses_categories of app.py   *)
(* and update_existing_expenses of update_categories.py.  A run is a       *)
(* SELECT, one step per fetched row, and a commit; the other operations    *)
(* run on connections of their own (other sessions, the script) and take   *)
(* their steps in between.                                                 *)
(***************************************************************************)
\* descriptions and categories of the records in the table when a run starts
BulkDescriptions == {"Grab-Cafe", "!!!", ""}

BulkCategories == {"food", "others"}

\* a record as save_expenses stored it
BulkRecord(id, description, category) ==
  ExpenseRow(id,
             [Date |-> "01 Jan 2024", Bills |-> description, Text |-> "S$0.03",
              Amount |-> 3, Category |-> category, SelfPercentage |-> 50,
              SelfAmount |-> calculate_split_amounts(3, 50, "up").self_amount,
              WifeAmount |-> calculate_split_amounts(3, 50, "up").wife_amount],
             "2024-01-01")

\* the expenses table after n inserts
ExpenseTables ==
  UNION { { [i \in 1..n |-> BulkRecord(i, f[i].description, f[i].category)] :
              f \in [1..n -> [description : BulkDescriptions,
                              category : BulkCategories]] } :
          n \in { m \in 0..MaxExpenses : m <= MaxId } }

\* the categories table when a run starts: empty after delete_category
\* removed the last category, or with one category
BulkStores == {<<>>, <<[name |-> "food", keywords |-> <<"cafe">>]>>}

InitBulk ==
  /\ categories \in BulkStores
  /\ defaultsFile \in DefaultFiles
  /\ expenses \in ExpenseTables
  /\ nextId = Len(expenses) + 1
  /\ dbLock = "none"
  /\ bulk = BulkIdle
  /\ pure = NoPure
  /\ lastOp = Op("init", <<>>, TRUE)

FunctionName(variant) ==
  IF variant = "app.py" THEN "update_existing_expenses_categories"
  ELSE "update_existing_expenses"

\* SELECT id, description, category FROM expenses (app.py);
\* SELECT id, description FROM expenses (update_categories.py)
SelectExpenses(variant, table) ==
  [i \in 1..Len(table) |->
     [id |-> table[i].id, description |-> table[i].description,
      category |-> IF variant = "app.py" THEN table[i].category ELSE NoCategory]]

\* the table as the run's connection sees it: with its uncommitted UPDATEs
ApplyPending(table, pending) ==
  [i \in 1..Len(table) |->
     IF \E k \in 1..Len(pending) : pending[k].id = table[i].id
     THEN [table[i] EXCEPT !.category =
             pending[CHOOSE k \in 1..Len(pending) :
                       pending[k].id = table[i].id].category]
     ELSE table[i]]

\* the UPDATE is executed for every fetched row
IssuedForEveryRow(variant, description, new_category, current_category) == TRUE

\* whether the loop body executes its UPDATE for a fetched row: `if
\* description:` in both, `if new_category != current_category:` in app.py
Issued(variant, description, new_category, current_category) ==
  /\ description # ""
  /\ variant = "app.py" => new_category # current_category

\* cursor.rowcount of the UPDATE: WHERE id = ? (app.py),
\* WHERE id = ? AND category != ? (update_categories.py)
Rowcount(variant, view, id, new_category) ==
  IF /\ HasId(view, id)
     /\ variant = "app.py" \/ RowOfId(view, id).category # new_category
  THEN 1 ELSE 0

\* the run connects and fetches the rows.  `second` records that the last
\* thing that happened was the commit of an undisturbed run of the same
\* function; `before` is the table as the SELECT saw it.
BulkSelect ==
  \E variant \in Variants :
    /\ bulk.pc \in {"idle", "done"}
    /\ ~Locked
    /\ bulk' = [pc |-> "scan", variant |-> variant,
                second |-> /\ bulk.pc = "done"
                           /\ bulk.ok
                           /\ bulk.quiet
                           /\ bulk.variant = variant
                           /\ lastOp.op = FunctionName(variant),
                before |-> expenses,
                rows |-> SelectExpenses(variant, expenses),
                next |-> 1, began |-> FALSE, pending |-> <<>>,
                total_updates |-> 0, updated_expenses |-> <<>>, seen |-> <<>>]
    /\ lastOp' = Op("SELECT", <<>>, TRUE)
    /\ UNCHANGED <<categories, defaultsFile, expenses, nextId, dbLock, pure>>

\* one turn of the loop over the fetched rows.  The first UPDATE executed
\* opens the run's transaction and takes the write lock.  `seen` records
\* for the row what the run compared and what its UPDATE replaced.
BulkUpdate ==
  /\ bulk.pc = "scan"
  /\ bulk.next <= Len(bulk.rows)
  /\ LET row == bulk.rows[bulk.next]
         c == Categorize(bulk.variant, row.description, categories,
                         defaultsFile, Locked)
         new_category == c.result.category
         view == ApplyPending(expenses, bulk.pending)
         stored == IF HasId(view, row.id)
                   THEN RowOfId(view, row.id).category ELSE NoCategory
         issued == Issued(bulk.variant, row.description, new_category,
                          row.category)
         rowcount == IF issued
                     THEN Rowcount(bulk.variant, view, row.id, new_category)
                     ELSE 0
     IN  /\ categories' = IF row.description = "" THEN categories ELSE c.store
         /\ dbLock' = IF issued THEN "bulk" ELSE dbLock
         /\ bulk' =
              [bulk EXCEPT
                 !.next = @ + 1,
                 !.began = @ \/ issued,
                 !.pending = IF rowcount > 0
                             THEN Append(@, [id |-> row.id, category |-> new_category])
                             ELSE @,
                 !.total_updates = @ + rowcount,
                 !.updated_expenses =
                    IF rowcount > 0
                    THEN Append(@, <<row.id, row.description, new_category>>)
                    ELSE @,
                 !.seen = Append(@,
                    [id |-> row.id, description |-> row.description,
                     compared |-> IF bulk.variant = "app.py"
                                  THEN row.category ELSE stored,
                     result |-> new_category,
                     replaced |-> stored,
                     rowcount |-> rowcount])]
  /\ UNCHANGED <<defaultsFile, expenses, nextId, pure, lastOp>>

\* conn.commit() after the loop, and the result (True, {...}).  `quiet`
\* records that no other operation was called since the run's SELECT.
BulkCommit ==
  /\ bulk.pc = "scan"
  /\ bulk.next > Len(bulk.rows)
  /\ expenses' = ApplyPending(expenses, bulk.pending)
  /\ dbLock' = "none"
  /\ bulk' = [pc |-> "done", ok |-> TRUE, quiet |-> lastOp.op = "SELECT",
              total_processed |-> Len(bulk.rows)] @@ bulk
  /\ lastOp' = Op(FunctionName(bulk.variant), <<>>, TRUE)
  /\ UNCHANGED <<categories, defaultsFile, nextId, pure>>

\* closing the connection without a commit commits what is pending
CommitOnClose(table, pending) == ApplyPending(table, pending)

\* the table after the connection was closed without a commit
Rollback(table, pending) == table

\* a statement of the run raises (database is locked by another process,
\* disk I/O error): the except clause returns (False, message) and the
\* connection is closed without a commit
BulkFail ==
  /\ bulk.pc = "scan"
  /\ expenses' = Rollback(expenses, bulk.pending)
  /\ dbLock' = "none"
  /\ bulk' = [pc |-> "done", ok |-> FALSE, quiet |-> lastOp.op = "SELECT",
              total_processed |-> 0] @@ bulk
  /\ lastOp' = Op(FunctionName(bulk.variant), <<>>, FALSE)
  /\ UNCHANGED <<categories, defaultsFile, nextId, pure>>

\* another session or process calls one operation while a run is between
\* its SELECT and its commit; the model follows one such call per run
OtherSession == bulk.pc = "scan" /\ lastOp.op = "SELECT"

\* the history editor of another session saves a category for a record
ConcurrentEdit ==
  /\ OtherSession
  /\ update_expense
  /\ lastOp'.args.category # NoCategory
  /\ lastOp'.args.self_percentage = NoPercentage

\* another session deletes a record
ConcurrentDelete == OtherSession /\ delete_expense

\* another session deletes a category
ConcurrentDeleteCategory == OtherSession /\ delete_category

NextBulk ==
  \/ BulkSelect
  \/ BulkUpdate
  \/ BulkCommit
  \/ BulkFail
  \/ ConcurrentEdit
  \/ ConcurrentDelete
  \/ ConcurrentDeleteCategory

SpecBulk == InitBulk /\ [][NextBulk]_vars

\* a run has just returned (True, {...}) / has just returned (False, message)
JustReturned(ok) ==
  /\ bulk.pc = "done"
  /\ bulk.ok = ok
  /\ lastOp.op = FunctionName(bulk.variant)

(* C5: idempotence of the bulk recategorizer.  A run that directly follows *)
(* a successful run of the same function, with no other operation called   *)
(* during either run or between them, reports total_updated = 0 and an     *)
(* empty change log and leaves every record as it was.                     *)
C5_SecondRunUpdatesNothing ==
  (JustReturned(TRUE) /\ bulk.second /\ bulk.quiet)
    => /\ bulk.total_updates = 0
       /\ bulk.updated_expenses = <<>>
       /\ expenses = bulk.before

\* the step on which a run commits
CommitStep == bulk.pc = "scan" /\ bulk'.pc = "done" /\ bulk'.ok

\* the step on which a run fails
FailStep == bulk.pc = "scan" /\ bulk'.pc = "done" /\ ~bulk'.ok

\* the change-log entries with record id `id`
EntriesOf(log, id) == { k \in 1..Len(log) : log[k][1] = id }

\* the category the table holds for record id
CategoryOf(table, id) == RowOfId(table, id).category

(* C6 as the code has it: after a successful run, a record the run fetched *)
(* and that is still stored is rewritten if and only if its description is *)
(* non-empty and the category the run computed for it differs from the     *)
(* category the run compared it with (app.py: the category fetched by the  *)
(* run's SELECT; update_categories.py: the category stored when the UPDATE *)
(* executes); a rewritten record holds the computed category, any other    *)
(* keeps its own; for each rewritten record exactly one entry is in the    *)
(* change log and it is the triple (record id, description, new category): *)
(* the old category is not in it; total_updated counts the entries.        *)
C6_RewrittenIffDiffers ==
  [][ CommitStep =>
        LET seen == bulk'.seen
            log == bulk'.updated_expenses
        IN  /\ Len(seen) = Len(bulk.rows)
            /\ bulk'.total_updates = Len(log)
            /\ \A k \in 1..Len(log) : \E j \in 1..Len(seen) : seen[j].id = log[k][1]
            /\ \A k \in 1..Len(seen) :
                 LET r == seen[k]
                     differs == /\ r.description # ""
                                /\ r.result # r.compared
                                /\ HasId(expenses', r.id)
                 IN  /\ r.id = bulk.rows[k].id
                     /\ Cardinality(EntriesOf(log, r.id)) = IF differs THEN 1 ELSE 0
                     /\ differs =>
                          /\ CategoryOf(expenses', r.id) = r.result
                          /\ \A e \in EntriesOf(log, r.id) :
                               log[e] = <<r.id, r.description, r.result>>
                     /\ (~differs /\ HasId(expenses', r.id)) =>
                          CategoryOf(expenses', r.id) = CategoryOf(expenses, r.id)
    ]_vars

\* a run of app.py over ('!!!', food) and ('', food) rewrote the first to
\* 'others' with one entry in the log and left the second alone
C6_Witness ==
  /\ JustReturned(TRUE)
  /\ bulk.variant = "app.py"
  /\ bulk.updated_expenses = << <<1, "!!!", "others">> >>
  /\ Len(bulk.rows) = 2
  /\ bulk.rows[2].description = ""
  /\ CategoryOf(expenses, 1) = "others"
  /\ CategoryOf(expenses, 2) = "food"

(* C6 as stated: after a successful run a record is rewritten if and only  *)
(* if its description is non-empty and the categorizer's result differs    *)
(* from the stored category, and each rewritten record has exactly one     *)
(* change-log entry carrying the record id, the description, the old       *)
(* category and the new category.                                          *)
C6_LogCarriesOldCategory ==
  JustReturned(TRUE) =>
    \A k \in 1..Len(bulk.seen) :
      LET r == bulk.seen[k]
          log == bulk.updated_expenses
      IN  IF r.description # "" /\ r.result # r.replaced /\ HasId(expenses, r.id)
          THEN /\ Cardinality(EntriesOf(log, r.id)) = 1
               /\ \A e \in EntriesOf(log, r.id) :
                    log[e] = <<r.id, r.description, r.replaced, r.result>>
          ELSE EntriesOf(log, r.id) = {}

(* C7: a run has exclusive access between its read of the record set and   *)
(* its commit: whatever a run rewrites still holds the category the record *)
(* had when the run read the record set, so no category saved by another   *)
(* session's update_expense in between is overwritten.                     *)
C7_NoConcurrentEditOverwritten ==
  bulk.pc \in {"scan", "done"} =>
    \A k \in 1..Len(bulk.seen) :
      bulk.seen[k].rowcount > 0 =>
        bulk.seen[k].replaced = CategoryOf(bulk.before, bulk.seen[k].id)

(* C8: the run fails atomically.  When it returns (False, message) none of *)
(* the rewrites it issued is stored: every record keeps the category it    *)
(* had before the step, which, when no other operation was called since    *)
(* the run's SELECT, is the category it had before the run.  When it       *)
(* returns (True, ...) every rewrite it issued is stored.                  *)
C8_FailsAtomically ==
  [][ /\ FailStep =>
           /\ expenses' = expenses
           /\ lastOp.op = "SELECT" => expenses' = bulk.before
      /\ CommitStep =>
           \A k \in 1..Len(bulk.pending) :
             CategoryOf(expenses', bulk.pending[k].id) = bulk.pending[k].category
    ]_vars

\* a run that had issued a rewrite of record 1 from 'food' to 'others'
\* failed, and record 1 is still 'food'
C8_Witness ==
  /\ JustReturned(FALSE)
  /\ bulk.pending = << [id |-> 1, category |-> "others"] >>
  /\ CategoryOf(bulk.before, 1) = "food"
  /\ CategoryOf(expenses, 1) = "food"

(***************************************************************************)
(* The duplicate-keyword detector.                                         *)
(***************************************************************************)
\* keyword texts the table also holds: the Add Category page hands
\* update_category the pieces of "grab,grab" as typed, and import_categories
\* stores the strings of the JSON untrimmed
DetectorTexts == StoredTexts \cup { <<"grab", "grab">>, <<" Grab ">> }

DetectorStores ==
  { t \in SeqsUpTo([name : StoredNames, keywords : DetectorTexts], 0,
                   Cardinality(StoredNames)) :
      \A i, j \in 1..Len(t) : i # j => t[i].name # t[j].name }

\* keyword_map[keyword].append(category), with keyword_map[keyword] = []
\* first when the key is new; the dict as its items in insertion order
AppendCategory(map, keyword, category) ==
  IF \E i \in 1..Len(map) : map[i].keyword = keyword
  THEN [i \in 1..Len(map) |->
          IF map[i].keyword = keyword
          THEN [map[i] EXCEPT !.categories = Append(@, category)]
          ELSE map[i]]
  ELSE Append(map, [keyword |-> keyword, categories |-> <<category>>])

RECURSIVE MapKeywords(_, _, _)
\* for keyword in keywords: if keyword and keyword.strip()
MapKeywords(keywords, category, map) ==
  IF keywords = <<>> THEN map
  ELSE MapKeywords(Tail(keywords), category,
                   IF NonBlank(Head(keywords))
                   THEN AppendCategory(map, StripLower(Head(keywords)), category)
                   ELSE map)

RECURSIVE MapCategories(_, _)
\* for category, keywords in categories.items()
MapCategories(snapshot, map) ==
  IF snapshot = <<>> THEN map
  ELSE MapCategories(Tail(snapshot),
                     MapKeywords(Head(snapshot).keywords, Head(snapshot).name, map))

\* the comprehension without its filter
EveryKeyword(snapshot) == MapCategories(snapshot, <<>>)

\* {k: v for k, v in keyword_map.items() if len(v) > 1}
DuplicateKeywords(snapshot) ==
  SelectSeq(MapCategories(snapshot, <<>>), LAMBDA e : Len(e.categories) > 1)

\* find_duplicate_keywords()
find_duplicate_keywords ==
  /\ LET read == ReadCategories("app.py", categories, defaultsFile, Locked)
     IN  /\ categories' = read.store
         /\ pure' = [fn |-> "find_duplicate_keywords",
                     result |-> DuplicateKeywords(read.snapshot)]
  /\ lastOp' = Op("find_duplicate_keywords", <<>>, TRUE)
  /\ UNCHANGED <<defaultsFile, expenses, nextId, dbLock, bulk>>

InitDetector ==
  /\ categories \in DetectorStores
  /\ defaultsFile \in DefaultFiles
  /\ expenses = <<>>
  /\ nextId = 1
  /\ dbLock = "none"
  /\ bulk = BulkIdle
  /\ pure = NoPure
  /\ lastOp = Op("init", <<>>, TRUE)

NextDetector ==
  \/ find_duplicate_keywords
  \/ update_categories_with_unique_keywords
  \/ delete_category

SpecDetector == InitDetector /\ [][NextDetector]_vars

\* the detector has just returned
DetectorReturned == lastOp.op = "find_duplicate_keywords"

\* the keywords of the snapshot as the detector compares them
SnapshotTokens(cats) ==
  LET snap == AllCategories(cats)
  IN  { StripLower(snap[p[1]].keywords[p[2]]) : p \in KeywordPlaces(cats) } \ {""}

\* the categories whose persisted list holds keyword t
Holders(cats, t) ==
  LET snap == AllCategories(cats)
  IN  { snap[i].name : i \in { k \in 1..Len(snap) :
          \E j \in 1..Len(snap[k].keywords) :
            StripLower(snap[k].keywords[j]) = t } }

(* C11: find_duplicate_keywords returns exactly the keywords that are in   *)
(* the persisted lists of two or more distinct categories, each mapped to  *)
(* the names of those categories: a keyword of one category only is not    *)
(* reported and every reported list names at least two different           *)
(* categories.                                                             *)
C11_ReportsSharedKeywords ==
  DetectorReturned =>
    /\ { pure.result[i].keyword : i \in 1..Len(pure.result) } =
         { t \in SnapshotTokens(categories) :
             Cardinality(Holders(categories, t)) >= 2 }
    /\ \A i \in 1..Len(pure.result) :
         /\ Range(pure.result[i].categories) =
              Holders(categories, pure.result[i].keyword)
         /\ Cardinality(Range(pure.result[i].categories)) >= 2

\* no keyword, trimmed and lowercased, stands at two places of the lists
NormalizedUnique(cats) ==
  LET snap == AllCategories(cats)
  IN  \A p, q \in KeywordPlaces(cats) :
        (/\ NonBlank(snap[p[1]].keywords[p[2]])
         /\ StripLower(snap[p[1]].keywords[p[2]]) =
              StripLower(snap[q[1]].keywords[q[2]]))
          => p = q

(* C12 as the code has it: for every persisted category set in which every *)
(* keyword is unique after trimming and lowercasing, the set being what    *)
(* the detector reads, find_duplicate_keywords returns an empty mapping;   *)
(* in particular it returns an empty mapping right after a successful      *)
(* update_categories_with_unique_keywords on a store that holds only the   *)
(* categories of that batch.                                               *)
C12_UniqueStoreNoCollisions ==
  [][ lastOp'.op = "find_duplicate_keywords" =>
        /\ NormalizedUnique(categories') => pure'.result = <<>>
        /\ (/\ lastOp.op = "update_categories_with_unique_keywords"
            /\ lastOp.ok
            /\ \A i \in 1..Len(categories) :
                 \E j \in 1..Len(lastOp.args.edited) :
                   Lower(lastOp.args.edited[j].name) = categories[i].name)
           => pure'.result = <<>>
    ]_vars

\* the detector read food: cafe and transport: grab and reported nothing
C12_Witness ==
  /\ DetectorReturned
  /\ AllCategories(categories) =
       << [name |-> "food", keywords |-> <<"cafe">>],
          [name |-> "transport", keywords |-> <<"grab">>] >>
  /\ pure.result = <<>>

(* C12 as stated: for every persisted category set in which no keyword, as *)
(* persisted, is in the lists twice, find_duplicate_keywords returns an    *)
(* empty mapping.                                                          *)
C12_PersistedUniqueNoCollisions ==
  DetectorReturned => (C1_KeywordsUnique => pure.result = <<>>)

(***************************************************************************)
(* The amount extractor.  A text is the sequence of its characters; an     *)
(* amount is in whole cents.                                               *)
(***************************************************************************)
\* a text that is NULL / None / NaN
NoText == <<"NULL">>

\* the longest of the generated texts
MaxTextLen == 3

\* statement texts: those of test_amount_extraction and others like them
StatementLines ==
  { <<"S", "$", "2", "5", ".", "9", "0">>,
    <<"s", "$", "2", "5", ".", "9", "0">>,
    <<"S", "$", "2", "5", ".", "9", "0", " ", "c", "r">>,
    <<"S", "$", "2", "5", ".", "9", "0", "C", "R">>,
    <<"M", "S", "I", "A", " ", "N", "/", "A", " ", "S", "G">>,
    <<"P", "O", "K", "K", "A", " ", "S", "G">>,
    <<"S", "$", "1", "0", "0">>,
    <<"P", "a", "y", "m", "e", "n", "t", " ", "S", "$", "5", "0", ".", "0", "0">>,
    <<"C", "r", "e", "d", "i", "t", " ", "S", "$", "7", "5", ".", "5", "0">>,
    <<"N", "/", "A", " ", "S", "$", "2", ".", "5", "0">>,
    <<"n", "/", "a", " ", "S", "$", "2", ".", "5", "0", " ", "c", "r">>,
    <<" ", " ">>,
    <<" ", "S", "$", "5", " ">>,
    <<"S", "$", " ", "5">>,
    <<"$", "5">>,
    <<"S", "$", ".", "5", "0">>,
    <<"S", "$", "1", ".", "5">>,
    <<"S", "$", "1", ".", "2", "5", "5">>,
    <<"S", "$", "3", " ", "S", "$", "4">>,
    <<"S", "$", " ", "s", "$", "4", ".", "1", "0">> }

\* every short text over a few characters
ShortTexts == SeqsUpTo({"s", "$", "1", ".", "c", "r"}, 0, MaxTextLen)

AmountTexts == StatementLines \cup ShortTexts \cup {NoText}

\* the pattern [Ss]\$(\d+(?:\.\d{2})?) matches at position i
MatchesAt(text, i) ==
  /\ i + 2 <= Len(text)
  /\ text[i] \in {"S", "s"}
  /\ text[i + 1] = "$"
  /\ IsDigit(text[i + 2])

\* re.search: the leftmost position the pattern matches at, 0 for no match
amount_match(text) ==
  LET at == { i \in 1..Len(text) : MatchesAt(text, i) }
  IN  IF at = {} THEN 0 ELSE CHOOSE i \in at : \A j \in at : i <= j

\* the end of the run of digits that starts at position i (\d+ is greedy)
DigitsEnd(text, i) ==
  CHOOSE j \in i..Len(text) :
    /\ \A k \in i..j : IsDigit(text[k])
    /\ j = Len(text) \/ ~IsDigit(text[j + 1])

\* float(amount_match.group(1)) in cents, for a match at position i
GroupValue(text, i) ==
  LET first == i + 2
      last == DigitsEnd(text, first)
      cents == IF /\ last + 3 <= Len(text)
                  /\ text[last + 1] = "."
                  /\ IsDigit(text[last + 2])
                  /\ IsDigit(text[last + 3])
               THEN 10 * DigitValue(text[last + 2]) + DigitValue(text[last + 3])
               ELSE 0
  IN  100 * WholeValue(SubSeq(text, first, last)) + cents

\* the 'n/a' test left out
NeverNotApplicable(lowered) == FALSE

\* 'n/a' in text
NotApplicable(lowered) == Contains(lowered, <<"n", "/", "a">>)

\* 'cr' looked for in the text as written
CreditAsWritten(original_text) == Contains(original_text, <<"c", "r">>)

\* 'cr' in text, text being the lowercased one
Credit(original_text) == Contains(LowerText(original_text), <<"c", "r">>)

\* extract_amount(text)
ExtractAmount(text) ==
  IF text = NoText THEN 0
  ELSE LET original_text == StripText(text)
           lowered == LowerText(original_text)
       IN  IF lowered = <<>> \/ NotApplicable(lowered) THEN 0
           ELSE IF amount_match(original_text) = 0 THEN 0
           ELSE IF Credit(original_text)
                THEN 0 - GroupValue(original_text, amount_match(original_text))
                ELSE GroupValue(original_text, amount_match(original_text))

InitAmount ==
  /\ categories = <<>>
  /\ defaultsFile \in DefaultFiles
  /\ expenses = <<>>
  /\ nextId = 1
  /\ dbLock = "none"
  /\ bulk = BulkIdle
  /\ pure \in [fn : {"input"}, text : AmountTexts]
  /\ lastOp = Op("init", <<>>, TRUE)

extract_amount ==
  /\ pure.fn = "input"
  /\ pure' = [fn |-> "extract_amount", text |-> pure.text,
              result |-> ExtractAmount(pure.text)]
  /\ UNCHANGED <<categories, defaultsFile, expenses, nextId, dbLock, bulk, lastOp>>

SpecAmount == InitAmount /\ [][extract_amount]_vars

\* extract_amount has returned for the text pure.text
AmountExtracted == pure.fn = "extract_amount"

\* the text holds the letters of `word` in a row, in any letter case
HoldsAnyCase(text, word) ==
  \E i \in 1..(Len(text) - Len(word) + 1) :
    \A k \in 1..Len(word) : LowerChar(text[i + k - 1]) = word[k]

\* the text holds an S$ or s$ marker immediately followed by a digit
HoldsAmount(text) == \E i \in 1..Len(text) : MatchesAt(text, i)

(* C13: extract_amount returns 0.00 whenever the text is null, is empty    *)
(* after trimming, contains 'n/a' in any letter case (an S$ amount in the  *)
(* text or not), or contains no S$/s$ marker immediately followed by       *)
(* digits.                                                                 *)
C13_NoAmountIsZero ==
  AmountExtracted =>
    ((\/ pure.text = NoText
      \/ \A i \in 1..Len(pure.text) : pure.text[i] = " "
      \/ HoldsAnyCase(pure.text, <<"n", "/", "a">>)
      \/ ~HoldsAmount(pure.text))
       => pure.result = 0)

\* 'N/A S$2.50' gave 0
C13_Witness ==
  /\ AmountExtracted
  /\ pure.text = <<"N", "/", "A", " ", "S", "$", "2", ".", "5", "0">>
  /\ pure.result = 0

(* C14: when the text has an amount match and no 'n/a', extract_amount     *)
(* returns the value of the first S$<digits>[.dd] match, negated if and    *)
(* only if the lowercased whole text contains 'cr' anywhere; without 'cr'  *)
(* the result is the matched value and is not negative.                    *)
C14_FirstMatchSigned ==
  (/\ AmountExtracted
   /\ pure.text # NoText
   /\ HoldsAmount(pure.text)
   /\ ~HoldsAnyCase(pure.text, <<"n", "/", "a">>))
    => LET stripped == StripText(pure.text)
           value == GroupValue(stripped, amount_match(stripped))
       IN  /\ value >= 0
           /\ pure.result = IF HoldsAnyCase(pure.text, <<"c", "r">>)
                            THEN 0 - value ELSE value
           /\ pure.text = <<"S", "$", "3", " ", "S", "$", "4">> => value = 300
           /\ pure.text = <<"S", "$", "1", ".", "2", "5", "5">> => value = 125

\* 'Credit S$75.50' gave -75.50: the 'cr' is the one of 'Credit'
C14_Witness ==
  /\ AmountExtracted
  /\ pure.text = <<"C", "r", "e", "d", "i", "t", " ", "S", "$", "7", "5", ".", "5", "0">>
  /\ pure.result = 0 - 7550

(***************************************************************************)
(* The date parser on its own.                                             *)
(***************************************************************************)
DayTexts == { <<"1">>, <<"0", "1">>, <<"1", "5">>, <<"3", "1">> }

\* abbreviated names of months of 31 days
MonthTexts == { <<"J", "a", "n">>, <<"m", "a", "r">>, <<"D", "E", "C">> }

MonthNumberTexts == { <<"1">>, <<"0", "1">>, <<"1", "2">> }

YearTexts ==
  { <<"2", "0", "2", "4">>, <<"2", "0", "2", "3">>, <<"0", "9", "9", "9">> }

Blanks == { <<" ">>, <<" ", " ">> }

\* the texts parse_date is given
DateTexts ==
  { d \o b \o m \o b \o y :
      d \in DayTexts, b \in Blanks, m \in MonthTexts, y \in YearTexts }
  \cup { d \o m \o y : d \in DayTexts, m \in MonthTexts, y \in YearTexts }
  \cup { y \o <<"-">> \o m \o <<"-">> \o d :
           y \in YearTexts, m \in MonthNumberTexts, d \in DayTexts }
  \cup { Chars(date_str) : date_str \in DateStrings }
  \cup { <<" ">> \o Chars("01 Jan 2024") \o <<" ">> }

InitDate ==
  /\ categories = <<>>
  /\ defaultsFile \in DefaultFiles
  /\ expenses = <<>>
  /\ nextId = 1
  /\ dbLock = "none"
  /\ bulk = BulkIdle
  /\ pure \in [fn : {"input"}, date_str : DateTexts, libc : Libcs]
  /\ lastOp = Op("init", <<>>, TRUE)

\* a call of parse_date(date_str)
parse_date_call ==
  /\ pure.fn = "input"
  /\ pure' = [fn |-> "parse_date", date_str |-> pure.date_str,
              libc |-> pure.libc,
              result |-> ParseDateText(pure.date_str, pure.libc)]
  /\ UNCHANGED <<categories, defaultsFile, expenses, nextId, dbLock, bulk, lastOp>>

SpecDate == InitDate /\ [][parse_date_call]_vars

\* parse_date has returned for the text pure.date_str
DateParsed == pure.fn = "parse_date"

\* the explicit formats that parse the text, by their place in the list
ParsingFormats(text) ==
  { k \in 1..Len(DateFormats) : ParsedFields(text, DateFormats[k]) # NoFields }

\* C15: parse_date returns the canonical YYYY-MM-DD string of the first
\* explicit format, in the order day abbreviated-month year,
\* dayAbbreviatedMonthYear, year-month-day, that parses the text, so that
\* '01 Jan 2024', '01Jan2024' and '2024-01-01' all give '2024-01-01'; when
\* every explicit format and the permissive fallback fail it returns no date
\* string.
C15_FirstFormatCanonical ==
  DateParsed =>
    /\ \A k \in ParsingFormats(pure.date_str) :
         (\A j \in ParsingFormats(pure.date_str) : k <= j)
           => pure.result = Isoformat(ParsedFields(pure.date_str, DateFormats[k]))
    /\ pure.date_str \in { Chars("01 Jan 2024"), Chars("01Jan2024"),
                           Chars("2024-01-01") }
         => pure.result = "2024-01-01"
    /\ (ParsingFormats(pure.date_str) = {}
        /\ PandasToDatetime(pure.date_str) = NoDate)
         => pure.result = NoDate

(***************************************************************************)
(* The upsert, seen through get_all_categories.                            *)
(***************************************************************************)
\* the dict get_all_categories of app.py returns for the table `cats`
Snapshot(cats) == ReadCategories("app.py", cats, defaultsFile, FALSE).snapshot

\* the entries of the snapshot under `name`
RowsNamed(snap, name) == { i \in 1..Len(snap) : snap[i].name = name }

\* the two snapshots have the same entries under every name but `name`
OthersKept(before, after, name) ==
  /\ \A i \in 1..Len(before) :
       before[i].name # name => \E j \in 1..Len(after) : after[j] = before[i]
  /\ \A j \in 1..Len(after) :
       after[j].name # name => \E i \in 1..Len(before) : before[i] = after[j]

\* this step is a call of update_category that returned True
UpsertStep == lastOp'.op = "update_category" /\ lastOp'.ok

\* after the step the snapshot has one entry under lower(name), it holds
\* `expected`, and the other entries are those of before
UpsertOutcome(name, expected) ==
  LET before == Snapshot(categories)
      after == Snapshot(categories')
  IN  /\ Cardinality(RowsNamed(after, Lower(name))) = 1
      /\ \A i \in RowsNamed(after, Lower(name)) : after[i].keywords = expected
      /\ OthersKept(before, after, Lower(name))

TopPairs(words, snapshot) ==
  LET pairs == Pairs(words, snapshot)
      score(p) == PairScore(words[p[1]], snapshot[p[2]].keywords)
  IN  { p \in pairs : \A q \in pairs : score(q) <= score(p) }

\* p comes before q in the scan: tokens in the order of the description and,
\* for one token, categories in the order of the snapshot
ScannedBefore(p, q) == p[1] < q[1] \/ (p[1] = q[1] /\ p[2] <= q[2])

\* some pair scores above the threshold
SomePairAccepted(words, snapshot) ==
  \E p \in Pairs(words, snapshot) :
    PairScore(words[p[1]], snapshot[p[2]].keywords) > Threshold

\* C17 (as amended): when (token, category) pairs reach the highest score
\* above 75, the returned category is that of the pair scanned first among
\* them: tokens are scanned in the order of the description and, for each
\* token, categories in the iteration order of the snapshot.
C17_EarliestPairWinsTies ==
  pure.fn = "categorize_expense" =>
    LET words == WordsOf(pure.variant, pure.expense_name)
        snapshot == AllCategories(categories)
        top == TopPairs(words, snapshot)
    IN  SomePairAccepted(words, snapshot) =>
          \E p \in top :
            /\ \A q \in top : ScannedBefore(p, q)
            /\ pure.result.category = snapshot[p[2]].name

\* 'Grab-Cafe' against food: cafe and transport: grab in app.py: grab scores
\* 100 with transport, cafe 100 with food, and the result is transport
C17_Witness ==
  /\ pure.fn = "categorize_expense"
  /\ pure.variant = "app.py"
  /\ pure.expense_name = "Grab-Cafe"
  /\ AllCategories(categories) =
       << [name |-> "food", keywords |-> <<"cafe">>],
          [name |-> "transport", keywords |-> <<"grab">>] >>
  /\ Cardinality(TopPairs(WordsOf(pure.variant, pure.expense_name),
                          AllCategories(categories))) = 2
  /\ pure.result = [category |-> "transport", score |-> 100]

\* C17 as stated: the returned category is the first, in the iteration order
\* of the snapshot, of the categories of the pairs that reach the highest
\* score above 75, whatever the tokens and their order.
C17_FirstCategoryWinsTies ==
  pure.fn = "categorize_expense" =>
    LET words == WordsOf(pure.variant, pure.expense_name)
        snapshot == AllCategories(categories)
        top == TopPairs(words, snapshot)
    IN  SomePairAccepted(words, snapshot) =>
          \E p \in top :
            /\ \A q \in top : p[2] <= q[2]
            /\ pure.result.category = snapshot[p[2]].name

(***************************************************************************)
(* What a bulk run leaves alone.                                           *)
(***************************************************************************)
\* this step is one of a bulk run: its SELECT, a turn of its loop, its
\* commit or its failure
RunStep == bulk' # bulk

\* the two tables hold the same records, up to their category
SameButCategory(before, after) ==
  /\ Len(after) = Len(before)
  /\ \A i \in 1..Len(before) :
       [after[i] EXCEPT !.category = before[i].category] = before[i]

\* C18: the bulk recategorizer rewrites the category field only: no step of
\* a run changes another field of a record, inserts or deletes a record, or
\* changes the category store.
C18_RewritesCategoryOnly ==
  [][RunStep => /\ SameButCategory(expenses, expenses')
                /\ categories' = categories]_vars

(***************************************************************************)
(* The operations that only read.                                          *)
(***************************************************************************)
\* get_all_categories()
get_all_categories ==
  \E variant \in Variants :
    /\ LET read == ReadCategories(variant, categories, defaultsFile, Locked)
       IN  /\ categories' = read.store
           /\ pure' = [fn |-> "get_all_categories", variant |-> variant,
                       result |-> read.snapshot]
    /\ lastOp' = Op("get_all_categories", <<>>, TRUE)
    /\ UNCHANGED <<defaultsFile, expenses, nextId, dbLock, bulk>>

InitReadOnly ==
  /\ categories \in BulkStores
  /\ defaultsFile \in DefaultFiles
  /\ expenses \in ExpenseTables
  /\ nextId = Len(expenses) + 1
  /\ dbLock = "none"
  /\ bulk = BulkIdle
  /\ pure \in [fn : {"input"}, variant : Variants, expense_name : Descriptions]
  /\ lastOp = Op("init", <<>>, TRUE)

NextReadOnly ==
  \/ categorize_expense
  \/ find_duplicate_keywords
  \/ get_all_categories

SpecReadOnly == InitReadOnly /\ [][NextReadOnly]_vars

\* this step is a call of one of the three operations
ReadStep ==
  pure'.fn \in {"categorize_expense", "find_duplicate_keywords",
                "get_all_categories"}

\* C19: categorize_expense, find_duplicate_keywords and get_all_categories
\* leave the persisted category store and the expense records exactly as they
\* were, for every state of the store, the empty one included.
C19_ReadersKeepPersistedState ==
  [][ReadStep => /\ categories' = categories
                 /\ expenses' = expenses]_vars

(***************************************************************************)
(* The categorizer without the similarity engine: `process` is None when   *)
(* fuzzywuzzy cannot be imported.                                          *)
(***************************************************************************)
\* sub in s
Substring(sub, s) == Contains(Letters(s), Letters(sub))

\* the keyword compared as it is stored
KeywordMatchesAsStored(keyword, expense_name) ==
  keyword # "" /\ Substring(keyword, expense_name)

\* if keyword and keyword.strip(): keyword = keyword.strip().lower();
\* if keyword in expense_name
KeywordMatches(keyword, expense_name) ==
  NonBlank(keyword) /\ Substring(StripLower(keyword), expense_name)

RECURSIVE ScanKeywords(_, _)
\* for keyword in keywords: whether some keyword returns
ScanKeywords(keywords, expense_name) ==
  IF keywords = <<>> THEN FALSE
  ELSE IF KeywordMatches(Head(keywords), expense_name) THEN TRUE
       ELSE ScanKeywords(Tail(keywords), expense_name)

RECURSIVE SubstringMatch(_, _)
\* the branch of categorize_expense for process is None: the first keyword
\* found in the description returns its category with 100
SubstringMatch(expense_name, snapshot) ==
  IF snapshot = <<>> THEN Fallback
  ELSE IF Head(snapshot).keywords = <<>>
       THEN SubstringMatch(expense_name, Tail(snapshot))
       ELSE IF ScanKeywords(Head(snapshot).keywords, expense_name)
            THEN [category |-> Head(snapshot).name, score |-> 100]
            ELSE SubstringMatch(expense_name, Tail(snapshot))

\* categorize_expense(expense_name) of app.py with process None: the result
\* and the table it leaves
CategorizeDegraded(expense_name, cats, defaults, locked) ==
  IF expense_name = NoDescription \/ Normalize(expense_name) = ""
  THEN [result |-> Fallback, store |-> cats]
  ELSE LET read == ReadCategories("app.py", cats, defaults, locked)
       IN  [result |-> SubstringMatch(Normalize(expense_name), read.snapshot),
            store |-> read.store]

InitDegraded ==
  /\ categories \in DetectorStores
  /\ defaultsFile \in DefaultFiles
  /\ expenses = <<>>
  /\ nextId = 1
  /\ dbLock = "none"
  /\ bulk = BulkIdle
  /\ pure \in [fn : {"input"}, process : {"None"}, expense_name : Descriptions]
  /\ lastOp = Op("init", <<>>, TRUE)

\* a call of categorize_expense while process is None
categorize_expense_degraded ==
  /\ pure.fn = "input"
  /\ LET c == CategorizeDegraded(pure.expense_name, categories, defaultsFile,
                                 Locked)
     IN  /\ categories' = c.store
         /\ pure' = [fn |-> "categorize_expense", process |-> "None",
                     expense_name |-> pure.expense_name, result |-> c.result]
  /\ UNCHANGED <<defaultsFile, expenses, nextId, dbLock, bulk, lastOp>>

SpecDegraded == InitDegraded /\ [][categorize_expense_degraded]_vars

\* categorize_expense has returned in degraded mode
DegradedReturned == pure.fn = "categorize_expense" /\ pure.process = "None"

\* the normalized description, empty for a missing one
NormalizedOf(expense_name) ==
  IF expense_name = NoDescription THEN "" ELSE Normalize(expense_name)

\* the result the places `hits` of the snapshot decide: the category of the
\* first of them, categories in snapshot order and keywords in list order,
\* with score 100, and ('others', 0) when there is none
DecidedBy(hits, snapshot) ==
  IF hits = {} THEN Fallback
  ELSE LET first == CHOOSE p \in hits :
                      \A q \in hits : p[1] < q[1] \/ (p[1] = q[1] /\ p[2] <= q[2])
       IN  [category |-> snapshot[first[1]].name, score |-> 100]

\* C20 (as amended): in degraded mode, iterating categories in snapshot
\* order and each category's keywords in list order, the first keyword that
\* is non-empty after trimming and that, trimmed and lowercased, is a
\* substring of the normalized description decides the result, which is that
\* keyword's category with score 100; if there is no such keyword the result
\* is ('others', 0).
C20_FirstSubstringDecides ==
  DegradedReturned =>
    LET snapshot == AllCategories(categories)
        name == NormalizedOf(pure.expense_name)
        hits == { p \in KeywordPlaces(categories) :
                    /\ NonBlank(snapshot[p[1]].keywords[p[2]])
                    /\ Substring(StripLower(snapshot[p[1]].keywords[p[2]]), name) }
    IN  pure.result = DecidedBy(hits, snapshot)

\* 'Grab Ride' against food: ' Grab ' and transport: 'grab' gives food, 100
C20_Witness ==
  /\ DegradedReturned
  /\ pure.expense_name = "Grab Ride"
  /\ AllCategories(categories) =
       << [name |-> "food", keywords |-> <<" Grab ">>],
          [name |-> "transport", keywords |-> <<"grab">>] >>
  /\ pure.result = [category |-> "food", score |-> 100]

\* C20 as stated: the first non-empty keyword that is, as it stands in the
\* snapshot, a literal substring of the normalized description decides the
\* result; if no keyword is a substring the result is ('others', 0).
C20_FirstLiteralSubstringDecides ==
  DegradedReturned =>
    LET snapshot == AllCategories(categories)
        name == NormalizedOf(pure.expense_name)
        hits == { p \in KeywordPlaces(categories) :
                    /\ snapshot[p[1]].keywords[p[2]] # ""
                    /\ Substring(snapshot[p[1]].keywords[p[2]], name) }
    IN  pure.result = DecidedBy(hits, snapshot)

(***************************************************************************)
(* Degenerate descriptions.                                                *)
(***************************************************************************)
\* the description is null or its normalized text is empty
Degenerate(expense_name) ==
  \/ expense_name = NoDescription
  \/ NormalizeText(Letters(expense_name)) = <<>>

\* C21: a null description, or one whose normalized text is empty, makes
\* categorize_expense return ('others', 0), whatever the categories table
\* holds.
C21_DegenerateGivesFallback ==
  (pure.fn = "categorize_expense" /\ Degenerate(pure.expense_name))
    => pure.result = Fallback

\* '!!!' against a table with keywords has given ('others', 0)
C21_Witness ==
  /\ pure.fn = "categorize_expense"
  /\ pure.variant = "app.py"
  /\ pure.expense_name = "!!!"
  /\ \E i \in 1..Len(categories) : categories[i].keywords = <<"grab">>
  /\ pure.result = Fallback

(***************************************************************************)
(* How the store operations end.                                           *)
(***************************************************************************)
\* what the caller of the operation recorded in `op` got: update_expense has
\* no except clause and no return statement, the others return True, or
\* False from their except clause
Outcome(op) ==
  IF op.op = "update_expense"
  THEN IF op.ok THEN "returned None" ELSE "raised"
  ELSE IF op.ok THEN "returned True" ELSE "returned False"

\* the operations on the store that C22 names
StoreOperations ==
  {"update_category", "delete_category", "save_expenses", "delete_expense",
   "update_categories_with_unique_keywords", "update_expense"}

\* this step is a call that met a write conflict or addressed a record that
\* is not in the table
PersistenceFailure ==
  /\ lastOp'.op \in StoreOperations
  /\ \/ Locked
     \/ /\ lastOp'.op \in {"delete_expense", "update_expense"}
        /\ ~HasId(expenses, lastOp'.args.expense_id)

\* C22: a persistence-layer failure (write conflict, missing record) in a
\* store operation is surfaced to the caller as a false result: the
\* operation neither raises nor returns as if it had succeeded.
C22_FailureReturnsFalse ==
  [][PersistenceFailure => Outcome(lastOp') = "returned False"]_vars

(***************************************************************************)
(* What update_expense leaves alone.                                       *)
(***************************************************************************)
\* this step is a call of update_expense
UpdateStep == lastOp'.op = "update_expense"

\* the fields of a record that update_expense may write, given its arguments
Writable(args) ==
  (IF args.category # NoCategory THEN {"category"} ELSE {})
    \cup (IF args.self_percentage # NoPercentage
          THEN {"self_percentage", "self_amount", "wife_amount"} ELSE {})

\* C23: update_expense writes only the category and the self percentage of
\* the record with the given id, and the two amounts derived from the
\* percentage when it is given: every other field of that record and every
\* other record is unchanged, no record is added or removed, and a call with
\* neither argument changes no record.
C23_UpdateWritesOnlyItsFields ==
  [][UpdateStep =>
       /\ Len(expenses') = Len(expenses)
       /\ nextId' = nextId
       /\ \A i \in 1..Len(expenses) :
            \A f \in DOMAIN expenses[i] :
              (expenses[i].id # lastOp'.args.expense_id
               \/ f \notin Writable(lastOp'.args))
                => expenses'[i][f] = expenses[i][f]]_vars

\* update_expense(id, 'transport', 100) has rewritten one of two records
C23_Witness ==
  /\ lastOp.op = "update_expense"
  /\ lastOp.ok
  /\ lastOp.args.category = "transport"
  /\ lastOp.args.self_percentage = 100
  /\ Len(expenses) = 2
  /\ \E i, j \in 1..Len(expenses) :
       /\ expenses[i].id = lastOp.args.expense_id
       /\ expenses[i].category = "transport"
       /\ expenses[i].self_percentage = 100
       /\ expenses[i].self_amount = expenses[i].amount
       /\ expenses[j].id # lastOp.args.expense_id
       /\ expenses[j].category # "transport"

(***************************************************************************)
(* The life of a category: the application has started, so init_db has     *)
(* seeded the table, and categories are upserted, deleted and read.        *)
(***************************************************************************)
InitLifecycle ==
  /\ defaultsFile \in DefaultFiles
  /\ categories = init_db(<<>>, defaultsFile)
  /\ expenses = <<>>
  /\ nextId = 1
  /\ dbLock = "none"
  /\ bulk = BulkIdle
  /\ pure = NoPure
  /\ lastOp = Op("init", <<>>, TRUE)

NextLifecycle ==
  \/ update_category
  \/ delete_category
  \/ get_all_categories

SpecLifecycle == InitLifecycle /\ [][NextLifecycle]_vars

\* the names of the rows of the table, or of the entries of a snapshot
Names(cats) == { cats[i].name : i \in 1..Len(cats) }

\* this step is an upsert, an import or a bulk keyword update that returned
\* success and so may have written category n
ExplicitWriteOf(n) ==
  /\ lastOp'.ok
  /\ \/ lastOp'.op = "update_category" /\ Lower(lastOp'.args.name) = n
     \/ lastOp'.op \in {"import_categories",
                        "update_categories_with_unique_keywords"}

\* C24: a deleted category stays deleted: a successful delete_category(name)
\* leaves the store without that name, a name that is not in the store comes
\* into it only by an explicit upsert, import or bulk update, and
\* get_all_categories returns the names of the store; this includes the
\* category that was the last one in the store.
C24_DeletedStaysDeleted ==
  [][\A n \in StoredNames :
       /\ (lastOp'.op = "delete_category" /\ lastOp'.ok
           /\ Lower(lastOp'.args.name) = n)
            => n \notin Names(categories')
       /\ (n \notin Names(categories) /\ n \in Names(categories'))
            => ExplicitWriteOf(n)
       /\ (pure'.fn = "get_all_categories" /\ pure' # pure)
            => Names(pure'.result) = Names(categories')]_vars

(***************************************************************************)
(* The categories a bulk run reads.                                        *)
(***************************************************************************)
\* C25: one bulk run categorizes every record against the same category
\* snapshot, whatever another operation commits during the scan: two records
\* of the run with the same description get the same category.
C25_OneSnapshotPerRun ==
  bulk.pc \in {"scan", "done"} =>
    \A i, j \in 1..Len(bulk.seen) :
      bulk.seen[i].description = bulk.seen[j].description
        => bulk.seen[i].result = bulk.seen[j].result

(***************************************************************************)
(* The bulk keyword update when one of its statements fails.               *)
(***************************************************************************)
\* conn.close() with the statements `written` executed and not committed:
\* the table is as it was before them
CloseWithoutCommit(cats, written) == cats

\* update_categories_with_unique_keywords(edited_categories) when the INSERT
\* for the category at place `failed` raises (disk I/O error, or another
\* process took the write lock after init_db's commit): the except clause
\* closes the connection and returns (False, message), the message naming
\* the category
KeywordUpdateFails ==
  \E edited \in Batches(StoredNames, KeywordTexts), failed \in 1..MaxBatch :
    /\ ~Locked
    /\ failed <= Len(processed_categories(edited))
    /\ categories' =
         CloseWithoutCommit(init_db(categories, defaultsFile),
                            SubSeq(processed_categories(edited), 1, failed - 1))
    /\ lastOp' = Op("update_categories_with_unique_keywords",
                    [failed |-> processed_categories(edited)[failed].name], FALSE)
    /\ UNCHANGED <<defaultsFile, expenses, nextId, dbLock, bulk, pure>>

NextKeywordUpdate ==
  \/ update_categories_with_unique_keywords
  \/ KeywordUpdateFails

SpecKeywordUpdate == InitDetector /\ [][NextKeywordUpdate]_vars

\* C26: the bulk keyword update commits all of its category writes or none:
\* when it returns success every category of the batch holds its processed
\* list, and when a write fails it returns (False, message) and the
\* persisted store is what it was before the call.
C26_AllOrNothing ==
  [][lastOp'.op = "update_categories_with_unique_keywords" =>
       IF lastOp'.ok
       THEN \A e \in Range(processed_categories(lastOp'.args.edited)) :
              [name |-> Lower(e.name), keywords |-> JoinKeywords(e.keywords)]
                \in Range(categories')
       ELSE categories' = categories]_vars


(***************************************************************************)
(* The rows a bulk keyword update leaves alone.                            *)
(***************************************************************************)
\* the rows of the table that carry this name
StoredUnder(cats, n) == { cats[i] : i \in RowsNamed(cats, n) }

\* the keys of edited_categories
KeysOf(edited) == { edited[i].name : i \in 1..Len(edited) }

\* C27: a bulk keyword update changes only the categories named in its
\* input: for every name that is not a key of edited_categories the table
\* holds after a successful call what it held before it, also when a keyword
\* of that category is claimed by a category of the batch.
C27_OnlyNamedCategoriesChange ==
  [][(lastOp'.op = "update_categories_with_unique_keywords" /\ lastOp'.ok) =>
       \A n \in (Names(categories) \cup Names(categories'))
                  \ KeysOf(lastOp'.args.edited) :
         StoredUnder(categories', n) = StoredUnder(categories, n)]_vars


(***************************************************************************)
(* The counts a bulk run returns.                                          *)
(***************************************************************************)
\* the ids of the records whose category in `after` is not the one in `before`
Recategorized(before, after) ==
  { before[i].id : i \in { j \in 1..Len(before) :
                             /\ HasId(after, before[j].id)
                             /\ CategoryOf(after, before[j].id) # before[j].category } }

\* C28: the counts a successful bulk run returns are consistent with its
\* effect: total_processed is the number of records the scan read (those
\* with an empty description included), total_updated is the length of the
\* change log and the number of records whose stored category is not what
\* it was before the run, and total_updated <= total_processed.
C28_CountsMatchEffect ==
  JustReturned(TRUE) =>
    /\ bulk.total_processed = Len(bulk.before)
    /\ bulk.total_updates = Len(bulk.updated_expenses)
    /\ bulk.total_updates = Cardinality(Recategorized(bulk.before, expenses))
    /\ bulk.total_updates <= bulk.total_processed


(***************************************************************************)
(* update_categories.py: sync_categories_from_json and main.               *)
(***************************************************************************)
\* contents of default_categories.json when the script runs: {}, one
\* category, two keys that are one name once lowercased, two categories, and
\* three keys of which the last repeats the second
SyncFiles ==
  { <<>>,
    << [name |-> "Food", keywords |-> <<"cafe">>] >>,
    << [name |-> "Food", keywords |-> <<"cafe">>],
       [name |-> "food", keywords |-> <<"grab">>] >>,
    << [name |-> "transport", keywords |-> <<"grab">>],
       [name |-> "Food", keywords |-> <<>>] >>,
    << [name |-> "transport", keywords |-> <<"grab", "cafe">>],
       [name |-> "Food", keywords |-> <<"cafe">>],
       [name |-> "food", keywords |-> <<"grab">>] >> }

\* the categories table when the script runs
SyncStores ==
  { <<>>,
    << [name |-> "food", keywords |-> <<"cafe">>] >>,
    << [name |-> "transport", keywords |-> <<"grab">>],
       [name |-> "food", keywords |-> <<"cafe">>] >> }

InitSync ==
  /\ categories \in SyncStores
  /\ defaultsFile \in SyncFiles
  /\ expenses \in ExpenseTables
  /\ nextId = Len(expenses) + 1
  /\ dbLock = "none"
  /\ bulk = BulkIdle
  /\ pure = NoPure
  /\ lastOp = Op("init", <<>>, TRUE)

\* DELETE FROM categories
DeleteAll(cats) == <<>>

RECURSIVE InsertOrReplaceCategories(_, _)
\* the loop with INSERT OR REPLACE in the place of INSERT
InsertOrReplaceCategories(cats, content) ==
  IF content = <<>> THEN [ok |-> TRUE, table |-> cats]
  ELSE InsertOrReplaceCategories(
         InsertOrReplace(cats, Lower(Head(content).name),
                         JoinKeywords(Head(content).keywords)),
         Tail(content))

RECURSIVE InsertCategories(_, _)
\* the loop of INSERT INTO categories (name, keywords) VALUES (category.lower(),
\* ','.join(keywords)): name is the primary key, so the INSERT of a name the
\* table holds raises IntegrityError and the loop ends there
InsertCategories(cats, content) ==
  IF content = <<>> THEN [ok |-> TRUE, table |-> cats]
  ELSE IF HasName(cats, Lower(Head(content).name))
       THEN [ok |-> FALSE, table |-> cats]
       ELSE InsertCategories(
              Append(cats, [name |-> Lower(Head(content).name),
                            keywords |-> JoinKeywords(Head(content).keywords)]),
              Tail(content))

\* sync_categories_from_json(), called by main or on its own.  open() or
\* json.load() can raise (the file is missing from the working directory or
\* is not JSON): nothing has been executed then.  The DELETE of a database
\* another connection has locked raises as well.  A failing INSERT leaves the
\* function through the except clause, which neither rolls back nor closes:
\* the transaction with the DELETE and the earlier INSERTs stays open,
\* uncommitted, and the connection keeps the write lock until it is dropped.
\* The model follows the script when no bulk run is under way.
SyncFromJson(caller) ==
  \E readable \in BOOLEAN :
    LET written == InsertCategories(DeleteAll(categories), defaultsFile)
        ok == readable /\ ~Locked /\ written.ok
    IN  /\ bulk.pc \in {"idle", "done"}
        /\ categories' = IF ok THEN written.table ELSE categories
        /\ dbLock' = IF readable /\ ~Locked /\ ~written.ok THEN "sync" ELSE dbLock
        /\ lastOp' = Op("sync_categories_from_json",
                        [caller |-> caller, readable |-> readable,
                         content |-> defaultsFile], ok)
        /\ UNCHANGED <<defaultsFile, expenses, nextId, bulk, pure>>

sync_categories_from_json == SyncFromJson("call")

\* main(): the sync, and `if not success: ... return`
main == SyncFromJson("main")

\* main() after a successful sync: update_existing_expenses() starts its run
MainRecategorize ==
  /\ lastOp = Op("sync_categories_from_json", lastOp.args, TRUE)
  /\ lastOp.args.caller = "main"
  /\ bulk.pc \in {"idle", "done"}
  /\ ~Locked
  /\ bulk' = [pc |-> "scan", variant |-> "update_categories.py",
              second |-> FALSE, before |-> expenses,
              rows |-> SelectExpenses("update_categories.py", expenses),
              next |-> 1, began |-> FALSE, pending |-> <<>>,
              total_updates |-> 0, updated_expenses |-> <<>>, seen |-> <<>>]
  /\ lastOp' = Op("SELECT", <<>>, TRUE)
  /\ UNCHANGED <<categories, defaultsFile, expenses, nextId, dbLock, pure>>

\* the connection of a failed sync is dropped (the collector frees it, or the
\* process ends): SQLite rolls its open transaction back
SyncConnectionDropped ==
  /\ dbLock = "sync"
  /\ categories' = CloseWithoutCommit(categories,
                     InsertCategories(DeleteAll(categories), defaultsFile).table)
  /\ dbLock' = "none"
  /\ lastOp' = Op("close", <<>>, TRUE)
  /\ UNCHANGED <<defaultsFile, expenses, nextId, bulk, pure>>

NextSync ==
  \/ sync_categories_from_json
  \/ main
  \/ MainRecategorize
  \/ BulkUpdate
  \/ BulkCommit
  \/ SyncConnectionDropped

SpecSync == InitSync /\ [][NextSync]_vars

\* two keys of the JSON object are one name once lowercased
OneNameTwice(content) ==
  \E i, j \in 1..Len(content) :
    i # j /\ Lower(content[i].name) = Lower(content[j].name)

\* the JSON object as rows: names lowercased, keywords joined
RowsOf(content) ==
  [i \in 1..Len(content) |->
     [name |-> Lower(content[i].name),
      keywords |-> JoinKeywords(content[i].keywords)]]

\* C29: sync_categories_from_json replaces the category store atomically.
\* When it returns (True, ...) the store holds exactly the categories of the
\* JSON object, names lowercased, and nothing of what it held before; when
\* the JSON cannot be read or two of its names are equal once lowercased it
\* returns (False, message); whenever it returns (False, message) the store
\* is what it was before the call, and stays so when the connection is
\* dropped; main() starts its recategorization only after a successful sync
\* and leaves the expenses alone otherwise.
C29_SyncReplacesAtomically ==
  [][/\ lastOp'.op = "sync_categories_from_json" =>
          /\ lastOp'.ok =>
               /\ categories' = RowsOf(lastOp'.args.content)
               /\ \A n \in Names(categories) \ Names(RowsOf(lastOp'.args.content)) :
                    n \notin Names(categories')
          /\ (~lastOp'.args.readable \/ OneNameTwice(lastOp'.args.content))
               => ~lastOp'.ok
          /\ ~lastOp'.ok => categories' = categories /\ expenses' = expenses
     /\ lastOp'.op = "close" => categories' = categories
     /\ (bulk.pc # "scan" /\ bulk'.pc = "scan") =>
          /\ lastOp.op = "sync_categories_from_json"
          /\ lastOp.ok
     /\ (lastOp.op = "sync_categories_from_json" /\ ~lastOp.ok) =>
          expenses' = expenses]_vars

\* the sync of {"transport": [...], "Food": [...], "food": [...]} over a store
\* with transport and food has failed at its third INSERT and the store
\* still holds the two rows it had
C29_Witness ==
  /\ lastOp = Op("sync_categories_from_json",
                 [caller |-> "main", readable |-> TRUE, content |-> defaultsFile],
                 FALSE)
  /\ Len(defaultsFile) = 3
  /\ dbLock = "sync"
  /\ categories = << [name |-> "transport", keywords |-> <<"grab">>],
                     [name |-> "food", keywords |-> <<"cafe">>] >>

====
